---- MODULE Spec2Model ----
(***************************************************************************)
(* Model of the per-tick mob logic of Pikifen's gameplay state:            *)
(* GameplayState::do_gameplay_logic (the "Mobs" section), the inter-mob    *)
(* interaction resolver (process_mob_interactions and its helpers), the    *)
(* spatial activity partition and the current-leader logic.                *)
(*                                                                         *)
(* Conventions.  Positions and lengths are integers (world units); mobs    *)
(* are placed on a horizontal line so that every distance is exact.  Time  *)
(* is counted in hundredths of a second.  A pointer to a mob is the mob's  *)
(* id; a pointer is dangling when its id is in freed.                      *)
(***************************************************************************)
EXTENDS Integers, Sequences, FiniteSets, TLC

VARIABLES
    mobs,               \* mobs.all: sequence of mob records
    freed,              \* ids of the mobs destroyed by delete_mob
    next_id,            \* next mob id handed out by the factory
    cur_leader_ptr,     \* id of the controlled leader, or NoMob
    cur_leader_idx,     \* index of the leader in available_leaders
    available_leaders,  \* ids of the leaders that can be switched to
    area_active_cells,  \* set of <<x, y>> cells flagged active
    cam_box,            \* camera box: <<top-left, bottom-right>>
    pc,                 \* position inside do_gameplay_logic
    tickNo,             \* number of ticks started
    n_mobs,             \* do_gameplay_logic: size captured at loop start
    m,                  \* do_gameplay_logic: loop index (1-based)
    n_mobs2,            \* process_mob_interactions: captured size
    m2,                 \* process_mob_interactions: loop index (1-based)
    h1,                 \* process_mob_touches: hitbox index of m
    h2,                 \* process_mob_touches: hitbox index of m2
    hb,                 \* process_mob_touches: locals of the hitbox loops
    state_before,       \* process_mob_interactions: fsm.cur_state at entry
    pending,            \* pending_intermob_events
    e,                  \* dispatch loop index (1-based)
    log,                \* dispatches made for the acting mob in this call
    budget,             \* side effects the scripts may still have
    hist,               \* observations kept for the properties
    scripted,           \* the mob whose script the FSM runtime executes
    pushing,            \* process_mob_touches: the push of the mobs onto m
    lead                \* a leader: its group, its throws and its orders

vars == <<mobs, freed, next_id, cur_leader_ptr, cur_leader_idx,
          available_leaders, area_active_cells, cam_box,
          pc, tickNo, n_mobs, m, n_mobs2, m2, h1, h2, hb, state_before,
          pending, e, log, budget, hist, scripted, pushing, lead>>

\* The state of the parts that are examined on their own.
unit_vars == <<scripted, pushing, lead>>

----------------------------------------------------------------------------
(* Bounds of the model.                                                    *)

MaxTicks == 2       \* ticks explored
MaxSpawns == 1      \* mobs a script may spawn in a run
MaxEffects == 2     \* handler runs of a run that have a side effect
TIME_CAP == 100     \* time_alive is not counted beyond this

----------------------------------------------------------------------------
(* Program constants.                                                      *)

NoMob == 0                  \* nullptr
INVALID == 0                \* INVALID index (states and reaches are 1-based)
INVALID_IDX == -1           \* (int) INVALID, for the 0-based leader index
GRACE_TIME == 10            \* 0.1f seconds, in hundredths
DELTA_T == 3                \* one frame at 30 FPS, in hundredths
AREA_CELL_SIZE == 128
GRID_COLS == 4              \* area_active_cells.size()
GRID_ROWS == 1              \* area_active_cells[0].size()
BMAP_TOP_LEFT == [x |-> 0, y |-> 0]
LEADER_STATE_ACTIVE == 1
IDLE_BUMP_RANGE == 50       \* game.config.pikmin.idle_bump_range
TASK_RANGE == 20            \* task_range(m_ptr)

Events == {"touch_ob", "touch_op", "obir", "opir", "near_carriable",
           "near_tool", "near_group_task", "touched_active_leader",
           "hb_an", "hb_na", "hb_nn", "hb_eat", "hazard"}

PendingEvents == {"obir", "opir", "near_carriable", "near_tool",
                  "near_group_task", "touched_active_leader"}

TouchEvents == {"touch_ob", "touch_op"}

HitboxEvents == {"hb_an", "hb_na", "hb_nn", "hb_eat", "hazard"}

\* What the action list of a handler may do to the world.
Effects == {"none", "set_state", "delete_self", "delete_other", "spawn"}

----------------------------------------------------------------------------
(* Arithmetic helpers.                                                     *)

Abs(a) == IF a < 0 THEN -a ELSE a

Max(a, b) == IF a > b THEN a ELSE b

Min(a, b) == IF a < b THEN a ELSE b

\* Conversion of a float quotient to int: truncation toward zero.
TruncDiv(a, b) == IF a >= 0 THEN a \div b ELSE -((-a) \div b)

\* Square root of a perfect square (distances of the model are integral).
ISqrt(n) == CHOOSE r \in 0..n : r * r <= n /\ (r + 1) * (r + 1) > n

\* Distance(p1, p2).to_float()
Dist(p, q) ==
    IF p.y = q.y THEN Abs(p.x - q.x)
    ELSE IF p.x = q.x THEN Abs(p.y - q.y)
    ELSE ISqrt((p.x - q.x) * (p.x - q.x) + (p.y - q.y) * (p.y - q.y))

----------------------------------------------------------------------------
(* Mob types.  A type holds what the repository keeps in MobType and in    *)
(* the animation data: geometry, hitboxes of the current frame, the reach, *)
(* and for every state of the script the set of events it handles.         *)

Hitbox(t, r, hz, bp) == [type |-> t, radius |-> r, hazards |-> hz,
                         body_part |-> bp]

NoReach == [radius |-> 0, angle |-> 0]

BaseType ==
    [category |-> "enemy", team |-> 2,
     inactive_logic |-> {},          \* subset of {"ticks", "interactions"}
     radius |-> 2, physical_span |-> 2, interaction_span |-> 2,
     height |-> 0,
     hitboxes |-> <<>>,
     reaches |-> <<>>,               \* type->reaches
     events |-> <<{}, {}>>,          \* per state: events with a handler
     resistant |-> FALSE,            \* is_resistant_to_hazards
     chomp_max |-> 0, chomp_body_parts |-> {}]

MobTypes ==
    [ rock    |-> BaseType,
      \* a creature that notices others in a wide reach
      hunter  |-> [BaseType EXCEPT
                     !.interaction_span = 40,
                     !.reaches = <<[radius |-> 40, angle |-> 360]>>,
                     !.events = <<{"obir", "opir", "touch_ob", "touch_op"},
                                  {"obir", "touch_ob"}>>],
      \* a creature with an attack hitbox that carries two hazards
      biter   |-> [BaseType EXCEPT
                     !.physical_span = 6, !.interaction_span = 6,
                     !.hitboxes = <<Hitbox("normal", 2, 0, 1),
                                    Hitbox("attack", 6, 2, 2)>>,
                     !.events = <<{"hb_an", "hb_nn", "touch_ob"}, {}>>,
                     !.chomp_max = 1, !.chomp_body_parts = {2}],
      \* a follower: the player's team, tasks and hitbox contacts
      pikmin  |-> [BaseType EXCEPT
                     !.category = "pikmin", !.team = 1,
                     !.physical_span = 3, !.interaction_span = 20,
                     !.hitboxes = <<Hitbox("normal", 3, 0, 1),
                                    Hitbox("normal", 2, 0, 2)>>,
                     !.events = <<{"touch_ob", "touch_op", "hb_na", "hb_nn",
                                   "hb_eat", "hazard", "near_carriable",
                                   "touched_active_leader"},
                                  {"touch_ob", "hazard", "hb_na"}>>],
      leader  |-> [BaseType EXCEPT
                     !.category = "leader", !.team = 1,
                     !.inactive_logic = {"ticks", "interactions"},
                     \* state 1: active; state 2: idling
                     !.events = <<{"touch_ob", "inactivated"},
                                  {"activated"},
                                  {}>>],            \* e.g. knocked down
      \* a follower that no hazard affects
      immune  |-> [BaseType EXCEPT
                     !.category = "pikmin", !.team = 1,
                     !.physical_span = 3, !.interaction_span = 20,
                     !.hitboxes = <<Hitbox("normal", 3, 0, 1),
                                    Hitbox("normal", 2, 0, 2)>>,
                     !.events = <<{"touch_ob", "touch_op", "hb_na", "hb_nn",
                                   "hb_eat", "hazard"},
                                  {"touch_ob", "hazard", "hb_na"}>>,
                     !.resistant = TRUE],
      \* a creature of the player's team whose attack hitbox carries no
      \* hazard
      ally    |-> [BaseType EXCEPT
                     !.team = 1,
                     !.physical_span = 6, !.interaction_span = 6,
                     !.hitboxes = <<Hitbox("normal", 2, 0, 1),
                                    Hitbox("attack", 6, 0, 2)>>,
                     !.chomp_max = 1, !.chomp_body_parts = {2}],
      \* a mob of the player's team whose script handles nothing but the
      \* touch of a hazard
      sprout  |-> [BaseType EXCEPT
                     !.team = 1,
                     !.physical_span = 3, !.interaction_span = 3,
                     !.hitboxes = <<Hitbox("normal", 3, 0, 1)>>,
                     !.events = <<{"hazard"}, {}>>],
      \* a carriable object that keeps interacting while inactive
      pellet  |-> [BaseType EXCEPT
                     !.category = "pellet", !.team = 0,
                     !.inactive_logic = {"interactions"}],
      \* a mob that keeps ticking while inactive
      ticker  |-> [BaseType EXCEPT
                     !.inactive_logic = {"ticks"},
                     !.interaction_span = 40,
                     !.reaches = <<[radius |-> 40, angle |-> 360]>>,
                     !.events = <<{"obir"}, {}>>] ]

TypeNames == DOMAIN MobTypes

TypeOf(mob) == MobTypes[mob.type]

\* Mob factory: a mob of the given type in its first state.
NewMob(id, type, x, alive) ==
    [id |-> id, type |-> type, pos |-> [x |-> x, y |-> 0], z |-> 0,
     angle |-> 0, state |-> 1, health |-> 100, time_alive |-> alive,
     is_active |-> FALSE, to_delete |-> FALSE, stored |-> FALSE,
     parent |-> NoMob, intangible |-> FALSE, invisible |-> FALSE,
     deleted_by |-> NoMob,            \* who set to_delete (observation only)
     near_reach |-> IF Len(MobTypes[type].reaches) > 0 THEN 1 ELSE INVALID,
     carry_free |-> type = "pellet",  \* carry_info && !carry_info->is_full()
     reserved |-> NoMob,              \* Tool::reserved
     free_spot |-> TRUE,              \* GroupTask::get_free_spot() != nullptr
     disables_attack |-> FALSE,       \* a status that disables attacks
     chomping |-> 0]                  \* chomping_mobs.size()

----------------------------------------------------------------------------
(* Lookups in mobs.all.                                                    *)

Ids(ms) == {ms[i].id : i \in 1..Len(ms)}

\* Index of the mob a pointer refers to (0 when it is not in the list).
IdxOf(ms, id) ==
    IF \E i \in 1..Len(ms) : ms[i].id = id
    THEN CHOOSE i \in 1..Len(ms) : ms[i].id = id
    ELSE 0

\* The sequence ms without its element at index i (vector::erase).
RemoveAt(ms, i) ==
    [k \in 1..(Len(ms) - 1) |-> IF k < i THEN ms[k] ELSE ms[k + 1]]

\* mobs.pikmin_list and mobs.leaders, as index sets into mobs.all.
PikminList(ms) ==
    {i \in 1..Len(ms) : MobTypes[ms[i].type].category = "pikmin"}

Leaders(ms) ==
    {i \in 1..Len(ms) : MobTypes[ms[i].type].category = "leader"}

----------------------------------------------------------------------------
(* Spatial activity partition.                                             *)

\* mark_area_cells_active(int, int, int, int): the cells it sets to true.
MarkCellsIdx(from_x, to_x, from_y, to_y) ==
    LET fx == Max(0, from_x)
        tx == Min(to_x, GRID_COLS - 1)
        fy == Max(0, from_y)
        ty == Min(to_y, GRID_ROWS - 1)
    IN  {c \in (fx..tx) \X (fy..ty) : TRUE}

\* mark_area_cells_active(const Point&, const Point&)
MarkAreaCellsActive(top_left, bottom_right) ==
    MarkCellsIdx(
        TruncDiv(top_left.x - BMAP_TOP_LEFT.x, AREA_CELL_SIZE),
        TruncDiv(bottom_right.x - BMAP_TOP_LEFT.x, AREA_CELL_SIZE),
        TruncDiv(top_left.y - BMAP_TOP_LEFT.y, AREA_CELL_SIZE),
        TruncDiv(bottom_right.y - BMAP_TOP_LEFT.y, AREA_CELL_SIZE))

AroundPos(p) ==
    MarkAreaCellsActive(
        [x |-> p.x - AREA_CELL_SIZE, y |-> p.y - AREA_CELL_SIZE],
        [x |-> p.x + AREA_CELL_SIZE, y |-> p.y + AREA_CELL_SIZE])

\* update_area_active_cells: the grid is cleared, then marked again.
UpdateAreaActiveCells(ms, cam) ==
    UNION {AroundPos(ms[i].pos) : i \in PikminList(ms)}
    \cup UNION {AroundPos(ms[i].pos) : i \in Leaders(ms)}
    \cup MarkAreaCellsActive(cam[1], cam[2])

\* First loop of update_mob_is_active_flag, for one mob.
CellFlag(mob, cells) ==
    LET cell_x == TruncDiv(mob.pos.x - BMAP_TOP_LEFT.x, AREA_CELL_SIZE)
        cell_y == TruncDiv(mob.pos.y - BMAP_TOP_LEFT.y, AREA_CELL_SIZE)
    IN  IF cell_x < 0 \/ cell_x >= GRID_COLS THEN FALSE
        ELSE IF cell_y < 0 \/ cell_y >= GRID_ROWS THEN FALSE
        ELSE <<cell_x, cell_y>> \in cells

\* child_mobs: the mobs that have a parent.
ChildMobs(ms) == {i \in 1..Len(ms) : ms[i].parent # NoMob}

\* Second loop: every child that is active makes its parent active.
RECURSIVE ChildrenToParents(_, _)
ChildrenToParents(ms, order) ==
    IF order = <<>> THEN ms
    ELSE LET c == Head(order)
             p == IdxOf(ms, ms[c].parent)
             ms1 == IF ms[c].is_active /\ p # 0
                    THEN [ms EXCEPT ![p].is_active = TRUE]
                    ELSE ms
         IN  ChildrenToParents(ms1, Tail(order))

\* Third loop: every child of an active parent becomes active.
RECURSIVE ParentsToChildren(_, _)
ParentsToChildren(ms, order) ==
    IF order = <<>> THEN ms
    ELSE LET c == Head(order)
             p == IdxOf(ms, ms[c].parent)
             ms1 == IF p # 0 /\ ms[p].is_active
                    THEN [ms EXCEPT ![c].is_active = TRUE]
                    ELSE ms
         IN  ParentsToChildren(ms1, Tail(order))

\* update_mob_is_active_flag; order is the iteration order of the
\* unordered_set child_mobs, the same in both loops over it.
UpdateMobIsActiveFlag(ms, cells, order) ==
    LET ms0 == [i \in 1..Len(ms) |->
                  [ms[i] EXCEPT !.is_active = CellFlag(ms[i], cells)]]
    IN  ParentsToChildren(ChildrenToParents(ms0, order), order)

\* The orders in which a set can be iterated.
RECURSIVE Orders(_)
Orders(S) ==
    IF S = {} THEN {<<>>}
    ELSE UNION {{<<x>> \o o : o \in Orders(S \ {x})} : x \in S}

----------------------------------------------------------------------------
(* Running a handler.  The action list of a handler is arbitrary script;   *)
(* the model lets it have one of the effects of Effects on the world       *)
(* w = [mobs, next_id, budget, log].                                       *)

\* Variant: handlers run on mobs marked for deletion too.
EventRunsAlways(mob) == TRUE

\* MobEvent::run on a mob: dispatch to a mob marked for deletion is a no-op.
EventRuns(mob) == ~mob.to_delete

\* MobFsm::get_event: does the current state handle the event?
GetEvent(mob, ev) == ev \in MobTypes[mob.type].events[mob.state]

\* MobFsm::set_state, as requested by a script: the type's other state.
SetState(mob) == [mob EXCEPT !.state = IF mob.state = 1 THEN 2 ELSE 1]

\* The effects a handler run on w.mobs[i] about w.mobs[j] may have here.
AllowedEffects(w, i, j) ==
    {"none"} \cup
    (IF w.budget.effects > 0 /\ EventRuns(w.mobs[i])
     THEN {"set_state", "delete_self"}
          \cup (IF j # 0 THEN {"delete_other"} ELSE {})
          \cup (IF w.budget.spawns > 0 THEN {"spawn"} ELSE {})
     ELSE {})

MarkForDeletion(mob, by) ==
    IF mob.to_delete THEN mob
    ELSE [mob EXCEPT !.to_delete = TRUE, !.deleted_by = by]

ApplyEffect(w, i, j, eff) ==
    LET spent == [w.budget EXCEPT !.effects = @ - 1]
    IN  CASE eff = "none" -> w
          [] eff = "set_state" ->
                [w EXCEPT !.mobs[i] = SetState(@), !.budget = spent]
          [] eff = "delete_self" ->
                [w EXCEPT !.mobs[i] = MarkForDeletion(@, w.mobs[i].id),
                          !.budget = spent]
          [] eff = "delete_other" ->
                [w EXCEPT !.mobs[j] = MarkForDeletion(@, w.mobs[i].id),
                          !.budget = spent]
          [] eff = "spawn" ->
                [w EXCEPT
                   !.mobs = Append(@, NewMob(w.next_id, "rock",
                                             w.mobs[i].pos.x, 0)),
                   !.next_id = @ + 1,
                   !.budget = [spent EXCEPT !.spawns = @ - 1]]

\* One call of event_ptr->run(m_ptr, ...) made by the interaction
\* resolver: ev is the event, hstate the state the handler was fetched
\* from, j the index of the other mob, info what the properties observe.
Dispatch(w, i, j, ev, hstate, eff, info) ==
    LET mob == w.mobs[i]
        entry == [ev |-> ev, other |-> w.mobs[j].id, other_idx |-> j,
                  hstate |-> hstate, cstate |-> mob.state,
                  ran |-> EventRuns(mob), to_delete |-> mob.to_delete,
                  d |-> Dist(mob.pos, w.mobs[j].pos),
                  key |-> info.key, h1 |-> info.h1, h2 |-> info.h2,
                  hazard |-> info.hazard]
        w1 == [w EXCEPT !.log = Append(@, entry)]
    IN  IF EventRuns(mob) THEN ApplyEffect(w1, i, j, eff) ELSE w1

NoInfo == [key |-> 0, h1 |-> 0, h2 |-> 0, hazard |-> 0]

World == [mobs |-> mobs, next_id |-> next_id, budget |-> budget, log |-> log]

SetWorld(w) ==
    /\ mobs' = w.mobs
    /\ next_id' = w.next_id
    /\ budget' = w.budget
    /\ log' = w.log

----------------------------------------------------------------------------
(* Geometry of a pair (ma is the acting mob m_ptr, mb is m2_ptr).  The     *)
(* footprints of the model are circles and heights are those of the type.  *)

Radius(mob) == MobTypes[mob.type].radius

PhysicalSpan(mob) == MobTypes[mob.type].physical_span

InteractionSpan(mob) == MobTypes[mob.type].interaction_span

\* Mob::get_distance_between: distance between the two mobs' limits.
GetDistanceBetween(ma, mb, d) == Max(0, d - Radius(ma) - Radius(mb))

\* Mob::can_hunt / Mob::can_hurt: opposing teams; team 0 is neutral.
CanHunt(ma, mb) ==
    LET ta == MobTypes[ma.type].team
        tb == MobTypes[mb.type].team
    IN  ta # tb /\ tb # 0

CanHurt(ma, mb) == CanHunt(ma, mb)

\* Variant: the cull looks at the activity and the age of both mobs.
ActivityCulledBoth(ma, mb) ==
    /\ "interactions" \notin MobTypes[mb.type].inactive_logic
    /\ ~ma.is_active
    /\ ~mb.is_active
    /\ ma.time_alive > GRACE_TIME
    /\ mb.time_alive > GRACE_TIME

\* The activity cull of process_mob_interactions.
ActivityCulled(ma, mb) ==
    /\ "interactions" \notin MobTypes[mb.type].inactive_logic
    /\ ~mb.is_active
    /\ ma.time_alive > GRACE_TIME

\* The three "continue"s that drop m2 before any distance is computed.
PairDropped(ma, mb) ==
    ActivityCulled(ma, mb) \/ mb.to_delete \/ mb.stored

\* Variant: both mobs' interaction spans against the centre distance.
TooFarSymmetric(ma, mb) ==
    Dist(ma.pos, mb.pos) > InteractionSpan(ma) + InteractionSpan(mb)

\* The broad-phase reject.
TooFar(ma, mb) ==
    LET d == Dist(ma.pos, mb.pos)
    IN  GetDistanceBetween(ma, mb, d) > InteractionSpan(ma) + PhysicalSpan(mb)

\* The gate of process_mob_touches.
SpansTouch(ma, mb) ==
    Dist(ma.pos, mb.pos) <= PhysicalSpan(ma) + PhysicalSpan(mb)

Height(mob) == MobTypes[mob.type].height

ZTouch(ma, mb) ==
    IF Height(ma) = 0 \/ Height(mb) = 0 THEN TRUE
    ELSE ~(mb.z > ma.z + Height(ma) \/ mb.z + Height(mb) < ma.z)

\* Variant: circles that just touch do not collide.
XYCollisionStrict(ma, mb) == Dist(ma.pos, mb.pos) < Radius(ma) + Radius(mb)

\* Circle vs circle.
XYCollision(ma, mb) == Dist(ma.pos, mb.pos) <= Radius(ma) + Radius(mb)

\* The condition under which the touch handlers are run.
Touching(ma, mb) == ZTouch(ma, mb) /\ ~mb.intangible /\ XYCollision(ma, mb)

\* get_angle_smallest_dif(m->angle, get_angle(m->pos, m2->pos)), degrees.
AngleDiff(ma, mb) ==
    LET to_mb == IF mb.pos.x >= ma.pos.x THEN 0 ELSE 180
    IN  Abs(ma.angle - to_mb)

\* is_mob_in_reach
IsMobInReach(r, d_between, angle_diff) ==
    d_between <= r.radius /\ 2 * angle_diff <= r.angle

Hitboxes(mob) == MobTypes[mob.type].hitboxes

\* Do the two hitboxes overlap?  Hitboxes sit at the mob's centre, have
\* height 0 (so they match at any Z) and no mob is held by a hitbox.
HitboxCollided(ma, ha, mb, hbx) ==
    Dist(ma.pos, mb.pos) < ha.radius + hbx.radius

----------------------------------------------------------------------------
(* Reaches and miscellaneous interactions: they only queue events.         *)

PendingIntermobEvent(d, ev, hstate, mob_ptr) ==
    [d |-> d, ev |-> ev, hstate |-> hstate, mob_ptr |-> mob_ptr]

\* The guard of the call of process_mob_reaches.
ReachesChecked(ma, mb) ==
    mb.health # 0 /\ ma.near_reach # INVALID /\ ~mb.invisible

\* process_mob_reaches: the events it appends to the pending list.
ProcessMobReaches(ma, mb, d_between) ==
    LET obir == GetEvent(ma, "obir")
        opir == GetEvent(ma, "opir")
        r == MobTypes[ma.type].reaches[ma.near_reach]
    IN  IF ~obir /\ ~opir THEN <<>>
        ELSE IF ~IsMobInReach(r, d_between, AngleDiff(ma, mb)) THEN <<>>
        ELSE (IF obir
              THEN <<PendingIntermobEvent(d_between, "obir", ma.state, mb.id)>>
              ELSE <<>>)
             \o
             (IF opir /\ CanHunt(ma, mb)
              THEN <<PendingIntermobEvent(d_between, "opir", ma.state, mb.id)>>
              ELSE <<>>)

\* process_mob_misc_interactions: the events it appends to the pending list.
ProcessMobMiscInteractions(ma, mb, d, d_between, leader) ==
    (IF GetEvent(ma, "near_carriable") /\ mb.carry_free
        /\ d_between <= TASK_RANGE
     THEN <<PendingIntermobEvent(d_between, "near_carriable", ma.state,
                                 mb.id)>>
     ELSE <<>>)
    \o
    (IF GetEvent(ma, "near_tool") /\ MobTypes[mb.type].category = "tool"
        /\ d_between <= TASK_RANGE
        /\ ~(mb.reserved # NoMob /\ mb.reserved # ma.id)
     THEN <<PendingIntermobEvent(d_between, "near_tool", ma.state, mb.id)>>
     ELSE <<>>)
    \o
    (IF GetEvent(ma, "near_group_task") /\ mb.health > 0
        /\ MobTypes[mb.type].category = "group_task"
        /\ d_between <= TASK_RANGE /\ mb.free_spot
     THEN <<PendingIntermobEvent(d_between, "near_group_task", ma.state,
                                 mb.id)>>
     ELSE <<>>)
    \o
    (IF GetEvent(ma, "touched_active_leader") /\ mb.id = leader
        /\ mb.state = LEADER_STATE_ACTIVE /\ d <= IDLE_BUMP_RANGE
     THEN <<PendingIntermobEvent(d_between, "touched_active_leader",
                                 ma.state, mb.id)>>
     ELSE <<>>)

\* The value the sort compares: e.d - (m_ptr->radius + e.mob_ptr->radius).
SortKey(ms, ma, ev) ==
    ev.d - (Radius(ma) + Radius(ms[IdxOf(ms, ev.mob_ptr)]))

\* Every result std::sort may produce for the pending list under the
\* comparator "key(e1) < key(e2)": elements with equal keys come out in
\* any order.  S is the set of positions still to be placed.
RECURSIVE SortedFrom(_, _, _, _)
SortedFrom(ms, ma, pend, S) ==
    IF S = {} THEN {<<>>}
    ELSE LET least == {i \in S : \A k \in S :
                          SortKey(ms, ma, pend[i]) <= SortKey(ms, ma, pend[k])}
         IN  UNION {{<<pend[i]>> \o rest :
                        rest \in SortedFrom(ms, ma, pend, S \ {i})} :
                    i \in least}

\* Variant: the pending list is dispatched in the order it was queued.
SortPendingUnsorted(ms, ma, pend) == {pend}

SortPending(ms, ma, pend) == SortedFrom(ms, ma, pend, 1..Len(pend))

----------------------------------------------------------------------------
(* Areas: the mobs an area file places, the leader in control and the      *)
(* camera box.  Mobs that have just been loaded have time_alive = 0.       *)

CamBox(x1, x2) == <<[x |-> x1, y |-> -60], [x |-> x2, y |-> 60]>>

\* A hunter whose reach holds three rocks, at sort keys 15, 5 and 10.
AreaReach ==
    [mobs |-> <<NewMob(1, "rock", 123, TIME_CAP),
                NewMob(2, "hunter", 100, TIME_CAP),
                NewMob(3, "rock", 113, TIME_CAP),
                NewMob(4, "rock", 118, TIME_CAP)>>,
     leader |-> NoMob, cam |-> CamBox(0, 250)]

\* A Pikmin inside a biter's hitboxes, next to a pellet.
AreaTouch ==
    [mobs |-> <<NewMob(1, "pikmin", 100, TIME_CAP),
                NewMob(2, "biter", 103, TIME_CAP),
                NewMob(3, "pellet", 110, 0)>>,
     leader |-> NoMob, cam |-> CamBox(90, 110)]

\* A leader touched by a hunter; far away, outside the active cells,
\* a rock, a mob that ticks while inactive and a fresh pellet.
AreaLeader ==
    [mobs |-> <<NewMob(1, "leader", 100, TIME_CAP),
                NewMob(2, "hunter", 104, TIME_CAP),
                NewMob(3, "rock", 400, TIME_CAP),
                NewMob(4, "ticker", 405, TIME_CAP),
                NewMob(5, "pellet", 410, 0)>>,
     leader |-> 1, cam |-> CamBox(90, 110)]

\* The first tick after loading: every mob is new.  The rock lies in a
\* cell that is not active.
AreaFresh ==
    [mobs |-> <<NewMob(1, "hunter", 120, 0),
                NewMob(2, "rock", 130, 0)>>,
     leader |-> NoMob, cam |-> CamBox(90, 110)]

\* Linked mobs and the edges of the grid: a chain child -> parent ->
\* grandparent of which only the child is in view, a Pikmin and a rock to
\* the left of the grid, and a rock to the right of it.
AreaLinks ==
    [mobs |-> <<[NewMob(1, "rock", 300, TIME_CAP) EXCEPT !.parent = 2],
                [NewMob(2, "rock", 150, TIME_CAP) EXCEPT !.parent = 3],
                NewMob(3, "rock", 200, TIME_CAP),
                NewMob(4, "pikmin", -150, TIME_CAP),
                NewMob(5, "rock", -20, TIME_CAP),
                NewMob(6, "rock", 600, TIME_CAP)>>,
     leader |-> NoMob, cam |-> CamBox(300, 310)]

\* A hazard-resistant follower inside the attack hitboxes of a biter and of
\* a creature of its own team.
AreaShield ==
    [mobs |-> <<NewMob(1, "immune", 100, TIME_CAP),
                NewMob(2, "biter", 103, TIME_CAP),
                NewMob(3, "ally", 101, TIME_CAP)>>,
     leader |-> NoMob, cam |-> CamBox(90, 110)]

\* A Pikmin inside the hitboxes of a biter that carries a status which
\* disables its attacks.
AreaStunned ==
    [mobs |-> <<NewMob(1, "pikmin", 100, TIME_CAP),
                [NewMob(2, "biter", 103, TIME_CAP)
                    EXCEPT !.disables_attack = TRUE]>>,
     leader |-> NoMob, cam |-> CamBox(90, 110)]

\* A mob that only handles the touch of a hazard, inside the attack
\* hitbox of a biter.
AreaHazard ==
    [mobs |-> <<NewMob(1, "sprout", 100, TIME_CAP),
                NewMob(2, "biter", 103, TIME_CAP)>>,
     leader |-> NoMob, cam |-> CamBox(90, 110)]

Areas == {AreaReach, AreaTouch, AreaLeader, AreaFresh, AreaLinks,
          AreaShield, AreaStunned, AreaHazard}

----------------------------------------------------------------------------
(* do_gameplay_logic, "Mobs" section: start of the tick and per-mob loop.  *)

NoHb == [an |-> 0, na |-> 0, nn |-> 0, eat |-> 0, haz |-> 0,
         rep_an |-> FALSE, rep_na |-> FALSE, rep_nn |-> FALSE,
         rep_eat |-> FALSE, rep_haz |-> FALSE]

\* The leaders the player can switch to.
UpdateAvailableLeaders(ms) ==
    LET idx == {i \in Leaders(ms) : ~ms[i].to_delete /\ ms[i].health > 0}
        RECURSIVE InOrder(_)
        InOrder(k) ==
            IF k > Len(ms) THEN <<>>
            ELSE (IF k \in idx THEN <<ms[k].id>> ELSE <<>>) \o InOrder(k + 1)
    IN  InOrder(1)

\* No scripted mob is followed while the gameplay tick is explored.
NoScripted == [type |-> "none"]

NoPushing == [phase |-> "none"]

NoLead == [phase |-> "none"]

Init ==
    /\ \E a \in Areas :
          /\ mobs = a.mobs
          /\ cur_leader_ptr = a.leader
          /\ cam_box = a.cam
          /\ next_id = Len(a.mobs) + 1
          /\ available_leaders = UpdateAvailableLeaders(a.mobs)
          /\ cur_leader_idx = IF a.leader = NoMob THEN INVALID_IDX ELSE 0
    /\ freed = {}
    /\ area_active_cells = {}
    /\ pc = "idle"
    /\ tickNo = 0
    /\ n_mobs = 0
    /\ m = 0
    /\ n_mobs2 = 0
    /\ m2 = 0
    /\ h1 = 0
    /\ h2 = 0
    /\ hb = NoHb
    /\ state_before = 0
    /\ pending = <<>>
    /\ e = 0
    /\ log = <<>>
    /\ budget = [effects |-> MaxEffects, spawns |-> MaxSpawns]
    /\ hist = [start_ids |-> {}, ticked |-> {}, acted |-> {},
               touched |-> {}, touched_prev |-> {},
               tick_on_deleted |-> FALSE, deref_freed |-> FALSE]
    /\ scripted = NoScripted
    /\ pushing = NoPushing
    /\ lead = NoLead

\* Locals of process_mob_interactions, which do not outlive a call.
ResetLocals ==
    /\ n_mobs2' = 0
    /\ m2' = 0
    /\ h1' = 0
    /\ h2' = 0
    /\ hb' = NoHb
    /\ state_before' = 0
    /\ pending' = <<>>
    /\ e' = 0

\* Start of the section: leader bookkeeping, activity partition, and the
\* capture of the list size.
BeginTick ==
    /\ pc = "idle"
    /\ tickNo < MaxTicks
    /\ LET cells == UpdateAreaActiveCells(mobs, cam_box)
       IN  /\ area_active_cells' = cells
           /\ \E order \in Orders(ChildMobs(mobs)) :
                 mobs' = UpdateMobIsActiveFlag(mobs, cells, order)
    /\ n_mobs' = Len(mobs)
    /\ m' = 1
    /\ pc' = "mob_loop"
    /\ tickNo' = tickNo + 1
    /\ hist' = [hist EXCEPT
                  !.start_ids = Ids(mobs), !.ticked = {}, !.acted = {},
                  !.touched = {}, !.touched_prev = hist.touched,
                  \* old_leader_pos = cur_leader_ptr->pos
                  !.deref_freed = @ \/ cur_leader_ptr \in freed]
    /\ UNCHANGED <<freed, next_id, cur_leader_ptr, cur_leader_idx,
                   available_leaders, cam_box, n_mobs2, m2, h1, h2, hb,
                   state_before, pending, e, log, budget>>
    /\ UNCHANGED unit_vars

\* Variant: the loop re-reads the size of the list at every iteration.
LoopBoundLive(captured, ms) == Len(ms)

\* The bound of the per-mob loops: the size captured before the loop.
LoopBound(captured, ms) == captured

\* Variant: the grace window is not consulted.
TickSkippedNoGrace(mob) ==
    /\ "ticks" \notin MobTypes[mob.type].inactive_logic
    /\ ~mob.is_active

\* The test that makes the per-mob loop skip an inactive mob.
TickSkipped(mob) ==
    /\ "ticks" \notin MobTypes[mob.type].inactive_logic
    /\ ~mob.is_active
    /\ mob.time_alive > GRACE_TIME

MobSkip ==
    /\ pc = "mob_loop"
    /\ m <= LoopBound(n_mobs, mobs)
    /\ TickSkipped(mobs[m])
    /\ m' = m + 1
    /\ UNCHANGED <<mobs, freed, next_id, cur_leader_ptr, cur_leader_idx,
                   available_leaders, area_active_cells, cam_box, pc, tickNo,
                   n_mobs, n_mobs2, m2, h1, h2, hb, state_before, pending, e,
                   log, budget, hist>>
    /\ UNCHANGED unit_vars

\* Mob::tick: a mob marked for deletion does nothing; otherwise its age
\* advances and its script and class logic run (eff).
MobTickOp(w, i, eff) ==
    IF w.mobs[i].to_delete THEN w
    ELSE ApplyEffect(
             [w EXCEPT !.mobs[i].time_alive = Min(@ + DELTA_T, TIME_CAP)],
             i, 0, eff)

\* m_ptr->tick(delta_t), then the entry of process_mob_interactions
\* (unless the mob is stored inside another).
MobTick ==
    /\ pc = "mob_loop"
    /\ m <= LoopBound(n_mobs, mobs)
    /\ ~TickSkipped(mobs[m])
    /\ \E eff \in AllowedEffects(World, m, 0) :
          LET w == MobTickOp(World, m, eff)
          IN  /\ SetWorld(w)
              /\ hist' = [hist EXCEPT
                            !.ticked = @ \cup {mobs[m].id},
                            !.tick_on_deleted =
                                @ \/ (mobs[m].to_delete /\ w # World),
                            !.acted = IF w.mobs[m].stored THEN @
                                      ELSE @ \cup {mobs[m].id}]
              /\ IF w.mobs[m].stored
                 THEN /\ m' = m + 1
                      /\ UNCHANGED <<pc, n_mobs2, m2, state_before>>
                 ELSE /\ pc' = "pair"
                      /\ n_mobs2' = Len(w.mobs)
                      /\ m2' = 1
                      /\ state_before' = w.mobs[m].state
                      /\ m' = m
    /\ UNCHANGED <<freed, cur_leader_ptr, cur_leader_idx, available_leaders,
                   area_active_cells, cam_box, tickNo, n_mobs, h1, h2, hb,
                   pending, e>>
    /\ UNCHANGED unit_vars

MobLoopEnd ==
    /\ pc = "mob_loop"
    /\ m > LoopBound(n_mobs, mobs)
    /\ pc' = "sweep"
    /\ m' = 1
    /\ UNCHANGED <<mobs, freed, next_id, cur_leader_ptr, cur_leader_idx,
                   available_leaders, area_active_cells, cam_box, tickNo,
                   n_mobs, n_mobs2, m2, h1, h2, hb, state_before, pending, e,
                   log, budget, hist>>
    /\ UNCHANGED unit_vars

----------------------------------------------------------------------------
(* process_mob_interactions: loop over the other mobs.                     *)

Fetch(mob, ev) == IF GetEvent(mob, ev) THEN mob.state ELSE 0

\* The handler is run when the condition holds; eff is what it does.
RunIf(cond, w, ev, hstate, eff, info) ==
    IF cond THEN Dispatch(w, m, m2, ev, hstate, eff, info) ELSE w

Eff(cond, w) == IF cond THEN AllowedEffects(w, m, m2) ELSE {"none"}

\* m2 is skipped before its distance matters, or is too far away.
PairSkip ==
    /\ pc = "pair"
    /\ m2 <= n_mobs2
    /\ \/ m = m2
       \/ PairDropped(mobs[m], mobs[m2])
       \/ TooFar(mobs[m], mobs[m2])
    /\ m2' = m2 + 1
    /\ UNCHANGED <<mobs, freed, next_id, cur_leader_ptr, cur_leader_idx,
                   available_leaders, area_active_cells, cam_box, pc, tickNo,
                   n_mobs, m, n_mobs2, h1, h2, hb, state_before, pending, e,
                   log, budget, hist>>
    /\ UNCHANGED unit_vars

\* m2 is examined: either its spans can touch m's, or only reaches and
\* miscellaneous interactions are looked at.
PairEnter ==
    /\ pc = "pair"
    /\ m2 <= n_mobs2
    /\ m # m2
    /\ ~PairDropped(mobs[m], mobs[m2])
    /\ ~TooFar(mobs[m], mobs[m2])
    /\ pc' = IF SpansTouch(mobs[m], mobs[m2]) THEN "touch" ELSE "reach"
    /\ UNCHANGED <<mobs, freed, next_id, cur_leader_ptr, cur_leader_idx,
                   available_leaders, area_active_cells, cam_box, tickNo,
                   n_mobs, m, n_mobs2, m2, h1, h2, hb, state_before, pending,
                   e, log, budget, hist>>
    /\ UNCHANGED unit_vars

\* process_mob_touches, first half: the touch events.  Both handlers are
\* fetched before either is run.
ProcessMobTouches ==
    /\ pc = "touch"
    /\ LET ma == mobs[m]
           mb == mobs[m2]
           touch_op_ev == Fetch(ma, "touch_op")
           touch_ob_ev == Fetch(ma, "touch_ob")
           touching == (touch_op_ev # 0 \/ touch_ob_ev # 0)
                       /\ Touching(ma, mb)
           f_ob == touching /\ touch_ob_ev # 0
       IN  \E e1 \in Eff(f_ob, World) :
             LET w1 == RunIf(f_ob, World, "touch_ob", touch_ob_ev, e1, NoInfo)
                 f_op == touching /\ touch_op_ev # 0
                         /\ CanHunt(w1.mobs[m], w1.mobs[m2])
             IN  \E e2 \in Eff(f_op, w1) :
                   LET w2 == RunIf(f_op, w1, "touch_op", touch_op_ev, e2,
                                   NoInfo)
                       mc == w2.mobs[m]
                       hb0 == [NoHb EXCEPT
                                 !.an = Fetch(mc, "hb_an"),
                                 !.na = Fetch(mc, "hb_na"),
                                 !.nn = Fetch(mc, "hb_nn"),
                                 !.eat = Fetch(mc, "hb_eat"),
                                 !.haz = Fetch(mc, "hazard")]
                       enter ==
                           /\ hb0.an # 0 \/ hb0.na # 0 \/ hb0.nn # 0
                              \/ hb0.eat # 0
                           /\ Len(Hitboxes(mc)) > 0
                           /\ Len(Hitboxes(w2.mobs[m2])) > 0
                   IN  /\ SetWorld(w2)
                       /\ hist' = [hist EXCEPT !.touched =
                                     IF f_ob /\ EventRuns(ma)
                                     THEN @ \cup {<<ma.id, mb.id>>}
                                     ELSE @]
                       /\ IF enter
                          THEN pc' = "hitbox" /\ hb' = hb0
                               /\ h1' = 1 /\ h2' = 1
                          ELSE pc' = "reach" /\ hb' = NoHb
                               /\ h1' = 0 /\ h2' = 0
    /\ UNCHANGED <<freed, cur_leader_ptr, cur_leader_idx, available_leaders,
                   area_active_cells, cam_box, tickNo, n_mobs, m, n_mobs2, m2,
                   state_before, pending, e>>
    /\ UNCHANGED unit_vars

\* Variant: reach and proximity handlers are run as soon as they are
\* detected instead of being queued.
ProcessReachesAtOnce ==
    /\ pc = "reach"
    /\ LET ma == mobs[m]
           mb == mobs[m2]
           d == Dist(ma.pos, mb.pos)
           d_between == GetDistanceBetween(ma, mb, d)
           found == (IF ReachesChecked(ma, mb)
                     THEN ProcessMobReaches(ma, mb, d_between)
                     ELSE <<>>)
                    \o ProcessMobMiscInteractions(ma, mb, d, d_between,
                                                  cur_leader_ptr)
           RECURSIVE RunAll(_, _)
           RunAll(w, k) ==
               IF k > Len(found) THEN w
               ELSE RunAll(Dispatch(w, m, m2, found[k].ev, found[k].hstate,
                                    "none", NoInfo), k + 1)
       IN  SetWorld(RunAll(World, 1))
    /\ m2' = m2 + 1
    /\ pc' = "pair"
    /\ UNCHANGED <<freed, cur_leader_ptr, cur_leader_idx, available_leaders,
                   area_active_cells, cam_box, tickNo, n_mobs, m, n_mobs2,
                   h1, h2, hb, state_before, pending, e, hist>>
    /\ UNCHANGED unit_vars

\* process_mob_reaches and process_mob_misc_interactions, and the end of
\* the loop body.
ProcessReaches ==
    /\ pc = "reach"
    /\ LET ma == mobs[m]
           mb == mobs[m2]
           d == Dist(ma.pos, mb.pos)
           d_between == GetDistanceBetween(ma, mb, d)
       IN  pending' =
               pending
               \o (IF ReachesChecked(ma, mb)
                   THEN ProcessMobReaches(ma, mb, d_between)
                   ELSE <<>>)
               \o ProcessMobMiscInteractions(ma, mb, d, d_between,
                                             cur_leader_ptr)
    /\ m2' = m2 + 1
    /\ pc' = "pair"
    /\ UNCHANGED <<mobs, freed, next_id, cur_leader_ptr, cur_leader_idx,
                   available_leaders, area_active_cells, cam_box, tickNo,
                   n_mobs, m, n_mobs2, h1, h2, hb, state_before, e, log,
                   budget, hist>>
    /\ UNCHANGED unit_vars

----------------------------------------------------------------------------
(* process_mob_touches, second half: the hitbox loops.                     *)

\* Conditions of the five events for hitbox a of m and hitbox b of m2;
\* hbs holds the fetched handlers and the "reported" flags.
AnFires(hbs, a, b) ==
    hbs.an # 0 /\ ~hbs.rep_an /\ a.type = "attack" /\ b.type = "normal"

NnFires(hbs, a, b) ==
    hbs.nn # 0 /\ ~hbs.rep_nn /\ a.type = "normal" /\ b.type = "normal"

DamageRejectedHazardOnly(ma, mb, a, b) ==
    /\ a.type = "normal"
    /\ b.type = "attack"
    /\ b.hazards > 0 /\ MobTypes[ma.type].resistant

\* "Confirmed damage" early exits: hazard resistance and can_hurt.
DamageRejected(ma, mb, a, b) ==
    /\ a.type = "normal"
    /\ b.type = "attack"
    /\ \/ b.hazards > 0 /\ MobTypes[ma.type].resistant
       \/ ~CanHurt(mb, ma)

EatFires(hbs, mb, a, b, disable_attack_status) ==
    /\ hbs.eat # 0
    /\ ~hbs.rep_eat
    /\ ~disable_attack_status
    /\ a.type = "normal"
    /\ mb.chomping < MobTypes[mb.type].chomp_max
    /\ b.body_part \in MobTypes[mb.type].chomp_body_parts

HazFires(hbs, a, b, disable_attack_status) ==
    /\ hbs.haz # 0
    /\ ~hbs.rep_haz
    /\ ~disable_attack_status
    /\ a.type = "normal"
    /\ b.type = "attack"
    /\ b.hazards > 0

\* Variant: the N-A event is not latched by its "reported" flag.
NaFiresUnlatched(hbs, a, b, disable_attack_status) ==
    /\ hbs.na # 0
    /\ ~disable_attack_status
    /\ a.type = "normal"
    /\ b.type = "attack"

NaFires(hbs, a, b, disable_attack_status) ==
    /\ hbs.na # 0
    /\ ~hbs.rep_na
    /\ ~disable_attack_status
    /\ a.type = "normal"
    /\ b.type = "attack"

\* The re-fetches that follow each event.
AfterAn(hbs, mc) ==
    [hbs EXCEPT !.rep_an = TRUE,
                !.eat = Fetch(mc, "hb_eat"), !.haz = Fetch(mc, "hazard"),
                !.na = Fetch(mc, "hb_na"), !.nn = Fetch(mc, "hb_nn")]

AfterNn(hbs, mc) ==
    [hbs EXCEPT !.rep_nn = TRUE,
                !.eat = Fetch(mc, "hb_eat"), !.haz = Fetch(mc, "hazard"),
                !.na = Fetch(mc, "hb_na"), !.an = Fetch(mc, "hb_an")]

AfterEat(hbs, mc) ==
    [hbs EXCEPT !.rep_eat = TRUE,
                !.haz = Fetch(mc, "hazard"), !.na = Fetch(mc, "hb_na")]

AfterHaz(hbs, mc) ==
    [hbs EXCEPT !.rep_haz = TRUE, !.na = Fetch(mc, "hb_na")]

\* The loop over the hazards of the attack hitbox: the worlds it can end
\* in, one handler run per hazard k..nh.
RECURSIVE HazardRuns(_, _, _, _, _)
HazardRuns(w, hstate, k, nh, info) ==
    IF k > nh THEN {w}
    ELSE UNION {HazardRuns(
                    Dispatch(w, m, m2, "hazard", hstate, z,
                             [info EXCEPT !.hazard = k]),
                    hstate, k + 1, nh, info) :
                z \in AllowedEffects(w, m, m2)}

\* Loop control: disabled hitboxes are skipped, the inner loop wraps.
HitboxNext ==
    /\ pc = "hitbox"
    /\ LET hs1 == Hitboxes(mobs[m])
           hs2 == Hitboxes(mobs[m2])
       IN  IF h1 > Len(hs1)
           THEN pc' = "reach" /\ h1' = 0 /\ h2' = 0 /\ hb' = NoHb
           ELSE /\ IF hs1[h1].type = "disabled" THEN TRUE
                   ELSE IF h2 > Len(hs2) THEN TRUE
                   ELSE hs2[h2].type = "disabled"
                /\ IF hs1[h1].type = "disabled" THEN h1' = h1 + 1 /\ h2' = 1
                   ELSE IF h2 > Len(hs2) THEN h1' = h1 + 1 /\ h2' = 1
                   ELSE h1' = h1 /\ h2' = h2 + 1
                /\ UNCHANGED <<pc, hb>>
    /\ UNCHANGED <<mobs, freed, next_id, cur_leader_ptr, cur_leader_idx,
                   available_leaders, area_active_cells, cam_box, tickNo,
                   n_mobs, m, n_mobs2, m2, state_before, pending, e, log,
                   budget, hist>>
    /\ UNCHANGED unit_vars

\* The N-A event, last of the loop body; the body ends here.
HitboxNa(w, hbs, a, b, dis, info) ==
    LET f_na == NaFires(hbs, a, b, dis)
    IN  \E e_na \in Eff(f_na, w) :
            /\ SetWorld(RunIf(f_na, w, "hb_na", hbs.na, e_na, info))
            /\ hb' = IF f_na THEN [hbs EXCEPT !.rep_na = TRUE] ELSE hbs

\* The "touched hazard" event, then the N-A event.
HitboxHaz(w, hbs, a, b, dis, info) ==
    LET f_haz == HazFires(hbs, a, b, dis)
    IN  \E w4 \in (IF f_haz
                   THEN HazardRuns(w, hbs.haz, 1, b.hazards, info)
                   ELSE {w}) :
            HitboxNa(w4, IF f_haz THEN AfterHaz(hbs, w4.mobs[m]) ELSE hbs,
                     a, b, dis, info)

\* The early exits of a rejected attack, then the eat event and the rest.
HitboxEat(w, hbs, a, b, info) ==
    IF DamageRejected(w.mobs[m], w.mobs[m2], a, b)
    THEN SetWorld(w) /\ hb' = hbs
    ELSE LET dis == w.mobs[m2].disables_attack
             f_eat == EatFires(hbs, w.mobs[m2], a, b, dis)
         IN  \E e_eat \in Eff(f_eat, w) :
             \E w3 \in {RunIf(f_eat, w, "hb_eat", hbs.eat, e_eat, info)} :
                 HitboxHaz(w3,
                           IF f_eat THEN AfterEat(hbs, w3.mobs[m]) ELSE hbs,
                           a, b, dis, info)

\* The N-N event and the rest.
HitboxNn(w, hbs, a, b, info) ==
    LET f_nn == NnFires(hbs, a, b)
    IN  \E e_nn \in Eff(f_nn, w) :
        \E w2 \in {RunIf(f_nn, w, "hb_nn", hbs.nn, e_nn, info)} :
            HitboxEat(w2, IF f_nn THEN AfterNn(hbs, w2.mobs[m]) ELSE hbs,
                      a, b, info)

\* The A-N event and the rest.
HitboxAn(w, hbs, a, b, info) ==
    LET f_an == AnFires(hbs, a, b)
    IN  \E e_an \in Eff(f_an, w) :
        \E w1 \in {RunIf(f_an, w, "hb_an", hbs.an, e_an, info)} :
            HitboxNn(w1, IF f_an THEN AfterAn(hbs, w1.mobs[m]) ELSE hbs,
                     a, b, info)

\* One pair of enabled hitboxes.
HitboxPair ==
    /\ pc = "hitbox"
    /\ h1 <= Len(Hitboxes(mobs[m]))
    /\ h2 <= Len(Hitboxes(mobs[m2]))
    /\ Hitboxes(mobs[m])[h1].type # "disabled"
    /\ Hitboxes(mobs[m2])[h2].type # "disabled"
    /\ IF ~HitboxCollided(mobs[m], Hitboxes(mobs[m])[h1],
                          mobs[m2], Hitboxes(mobs[m2])[h2])
       THEN UNCHANGED <<mobs, next_id, budget, log, hb>>
       ELSE HitboxAn(World, hb, Hitboxes(mobs[m])[h1],
                     Hitboxes(mobs[m2])[h2],
                     [NoInfo EXCEPT !.h1 = h1, !.h2 = h2])
    /\ h2' = h2 + 1
    /\ UNCHANGED <<freed, cur_leader_ptr, cur_leader_idx, available_leaders,
                   area_active_cells, cam_box, pc, tickNo, n_mobs, m, n_mobs2,
                   m2, h1, state_before, pending, e, hist>>
    /\ UNCHANGED unit_vars

----------------------------------------------------------------------------
(* process_mob_interactions: sort and dispatch of the pending events.      *)

SortAndDispatch ==
    /\ pc = "pair"
    /\ m2 > n_mobs2
    /\ \E sorted \in SortPending(mobs, mobs[m], pending) :
          pending' = sorted
    /\ e' = 1
    /\ pc' = "dispatch"
    /\ UNCHANGED <<mobs, freed, next_id, cur_leader_ptr, cur_leader_idx,
                   available_leaders, area_active_cells, cam_box, tickNo,
                   n_mobs, m, n_mobs2, m2, h1, h2, hb, state_before, log,
                   budget, hist>>
    /\ UNCHANGED unit_vars

\* Variant: the dispatch loop never looks at the state.
StateChangedIgnored(mob, before) == FALSE

\* The test that ends the dispatch loop early.
StateChanged(mob, before) == mob.state # before

DispatchEvent ==
    /\ pc = "dispatch"
    /\ e <= Len(pending)
    /\ ~StateChanged(mobs[m], state_before)
    /\ LET ev == pending[e]
           j == IdxOf(mobs, ev.mob_ptr)
           info == [NoInfo EXCEPT !.key = SortKey(mobs, mobs[m], ev)]
       IN  \E eff \in AllowedEffects(World, m, j) :
             SetWorld(Dispatch(World, m, j, ev.ev, ev.hstate, eff, info))
    /\ e' = e + 1
    /\ UNCHANGED <<freed, cur_leader_ptr, cur_leader_idx, available_leaders,
                   area_active_cells, cam_box, pc, tickNo, n_mobs, m, n_mobs2,
                   m2, h1, h2, hb, state_before, pending, hist>>
    /\ UNCHANGED unit_vars

\* The loop is over or is left by the break; control returns to the
\* per-mob loop of do_gameplay_logic.
DispatchEnd ==
    /\ pc = "dispatch"
    /\ e > Len(pending) \/ StateChanged(mobs[m], state_before)
    /\ pc' = "mob_loop"
    /\ m' = m + 1
    /\ log' = <<>>
    /\ ResetLocals
    /\ UNCHANGED <<mobs, freed, next_id, cur_leader_ptr, cur_leader_idx,
                   available_leaders, area_active_cells, cam_box, tickNo,
                   n_mobs, budget, hist>>
    /\ UNCHANGED unit_vars

----------------------------------------------------------------------------
(* The deletion sweep that follows the per-mob loop.                       *)

\* delete_mob: the mob leaves mobs.all and its memory is released.
DeleteMob(ms, i) == RemoveAt(ms, i)

\* Variant: the sweep steps over the element that follows a deleted one.
SweepAfterDeleteSkips(i) == i + 1

\* Index the sweep looks at after it deleted the mob at index i.
SweepAfterDelete(i) == i

SweepDelete ==
    /\ pc = "sweep"
    /\ m <= n_mobs
    /\ mobs[m].to_delete
    /\ mobs' = DeleteMob(mobs, m)
    /\ freed' = freed \cup {mobs[m].id}
    /\ n_mobs' = n_mobs - 1
    /\ m' = SweepAfterDelete(m)
    /\ UNCHANGED <<next_id, cur_leader_ptr, cur_leader_idx,
                   available_leaders, area_active_cells, cam_box, pc, tickNo,
                   n_mobs2, m2, h1, h2, hb, state_before, pending, e, log,
                   budget, hist>>
    /\ UNCHANGED unit_vars

SweepKeep ==
    /\ pc = "sweep"
    /\ m <= n_mobs
    /\ ~mobs[m].to_delete
    /\ m' = m + 1
    /\ UNCHANGED <<mobs, freed, next_id, cur_leader_ptr, cur_leader_idx,
                   available_leaders, area_active_cells, cam_box, pc, tickNo,
                   n_mobs, n_mobs2, m2, h1, h2, hb, state_before, pending, e,
                   log, budget, hist>>
    /\ UNCHANGED unit_vars

SweepEnd ==
    /\ pc = "sweep"
    /\ m > n_mobs
    /\ pc' = "leader"
    /\ UNCHANGED <<mobs, freed, next_id, cur_leader_ptr, cur_leader_idx,
                   available_leaders, area_active_cells, cam_box, tickNo,
                   n_mobs, m, n_mobs2, m2, h1, h2, hb, state_before, pending,
                   e, log, budget, hist>>
    /\ UNCHANGED unit_vars

----------------------------------------------------------------------------
(* Current-leader logic.                                                   *)

\* sum_and_wrap
SumAndWrap(n, delta, wrap_limit) == (n + delta) % wrap_limit

\* The search loop of change_to_next_leader.  L is [ptr, idx, mobs]; a
\* candidate whose state handles the activation event takes control.
\* fuel bounds the iterations: a loop that uses it up never ends.
RECURSIVE LeaderSearch(_, _, _, _, _, _)
LeaderSearch(L, avail, new_idx, dir, original, fuel) ==
    IF fuel = 0 THEN [L EXCEPT !.hang = TRUE]
    ELSE
      LET idx == SumAndWrap(new_idx, dir, Len(avail))
          new_ptr == avail[idx + 1]
          back == new_ptr = original
          ni == IdxOf(L.mobs, new_ptr)
          accepts == ni # 0 /\ EventRuns(L.mobs[ni])
                     /\ GetEvent(L.mobs[ni], "activated")
          L1 == IF accepts
                THEN [L EXCEPT !.ptr = new_ptr, !.idx = idx,
                               !.mobs[ni].state = LEADER_STATE_ACTIVE]
                ELSE L
          L2 == [L1 EXCEPT !.new_idx = idx,
                           !.tried = @ \cup {new_ptr},
                           !.cant_find = back,
                           !.success = L1.ptr # original]
      IN  IF back \/ L1.ptr # original THEN L2
          ELSE LeaderSearch([L1 EXCEPT !.tried = @ \cup {new_ptr}],
                            avail, idx, dir, original, fuel - 1)

\* change_to_next_leader(forward, force_success, keep_idx)
ChangeToNextLeader(ms, ptr, idx, avail, forward, force_success, keep_idx) ==
    LET L0 == [ptr |-> ptr, idx |-> idx, mobs |-> ms, hang |-> FALSE,
               new_idx |-> idx, cant_find |-> FALSE, success |-> FALSE,
               tried |-> {}]     \* who was sent LEADER_EV_ACTIVATED
        ci == IdxOf(ms, ptr)
        dir == IF forward THEN 1 ELSE -1
    IN  IF avail = <<>>
        THEN [L0 EXCEPT !.ptr = NoMob, !.idx = INVALID_IDX]
        ELSE IF Len(avail) = 1 /\ ptr # NoMob /\ ~keep_idx THEN L0
        ELSE IF ptr # NoMob /\ ci # 0 /\ ~GetEvent(ms[ci], "inactivated")
                /\ ~force_success
        THEN L0
        ELSE
          LET start == IF keep_idx THEN idx - dir ELSE idx
              L1 == LeaderSearch(L0, avail, start, dir, ptr,
                                 2 * Len(avail) + 1)
          IN  IF ~L1.hang /\ L1.cant_find /\ force_success
              THEN LET fi == SumAndWrap(L1.new_idx, dir, Len(avail))
                       fp == avail[fi + 1]
                       fm == IdxOf(L1.mobs, fp)
                   IN  [L1 EXCEPT
                          !.idx = fi, !.ptr = fp, !.success = TRUE,
                          !.mobs = IF fm = 0 THEN @
                                   ELSE [@ EXCEPT ![fm].state =
                                                    LEADER_STATE_ACTIVE]]
              ELSE L1

\* do_gameplay_leader_logic, up to the leader's movement events.  Reading
\* through a pointer to a destroyed mob is undefined: the to_delete flag
\* it yields is either value.
DoGameplayLeaderLogic ==
    /\ pc = "leader"
    /\ IF cur_leader_ptr = NoMob
       THEN UNCHANGED <<mobs, cur_leader_ptr, cur_leader_idx,
                        available_leaders, hist>>
       ELSE
         LET dangling == cur_leader_ptr \in freed
             li == IdxOf(mobs, cur_leader_ptr)
         IN  \E flag \in (IF dangling \/ li = 0 THEN BOOLEAN
                           ELSE {mobs[li].to_delete}) :
               IF flag
               THEN
                 LET avail == UpdateAvailableLeaders(mobs)
                     L == ChangeToNextLeader(mobs, cur_leader_ptr,
                                             cur_leader_idx, avail,
                                             TRUE, TRUE, TRUE)
                 IN  /\ ~L.hang
                     /\ available_leaders' = avail
                     /\ mobs' = L.mobs
                     /\ cur_leader_ptr' = L.ptr
                     /\ cur_leader_idx' = L.idx
                     /\ hist' = [hist EXCEPT
                                   !.deref_freed = @ \/ dangling
                                                     \/ L.ptr \in freed]
               ELSE
                 /\ hist' = [hist EXCEPT !.deref_freed = @ \/ dangling]
                 /\ UNCHANGED <<mobs, cur_leader_ptr, cur_leader_idx,
                                available_leaders>>
    /\ pc' = "idle"
    /\ UNCHANGED <<freed, next_id, area_active_cells, cam_box, tickNo,
                   n_mobs, m, n_mobs2, m2, h1, h2, hb, state_before, pending,
                   e, log, budget>>
    /\ UNCHANGED unit_vars

----------------------------------------------------------------------------

Next ==
    \/ BeginTick
    \/ MobSkip
    \/ MobTick
    \/ MobLoopEnd
    \/ PairSkip
    \/ PairEnter
    \/ ProcessMobTouches
    \/ HitboxNext
    \/ HitboxPair
    \/ ProcessReaches
    \/ SortAndDispatch
    \/ DispatchEvent
    \/ DispatchEnd
    \/ SweepDelete
    \/ SweepKeep
    \/ SweepEnd
    \/ DoGameplayLeaderLogic

Spec == Init /\ [][Next]_vars

----------------------------------------------------------------------------
(* Properties.  log holds, in order, every dispatch made for the acting    *)
(* mob m in the current call of process_mob_interactions.                  *)

LogIdx == 1..Len(log)

IsPending(en) == en.ev \in PendingEvents

IsContact(en) == en.ev \in TouchEvents \cup HitboxEvents

\* Positions inside process_mob_interactions at which m2 is being examined.
ExaminingPcs == {"touch", "hitbox", "reach"}

\* Positions of the per-mob loop (the sweep comes after it).
LoopPcs == {"mob_loop", "pair", "touch", "hitbox", "reach", "dispatch"}

\* C1: the pending events dispatched for one acting mob in one tick run in
\* ascending order of (event distance - (m.radius + other.radius)): of two
\* dispatched events, the one with the strictly smaller key runs first.
C1_PendingAscending ==
    \A i, j \in LogIdx :
        (i < j /\ IsPending(log[i]) /\ IsPending(log[j]))
            => log[i].key <= log[j].key

\* Two pending handlers have run in key order although the events were
\* queued in the opposite order (the later one for a lower mob index).
C1_Witness ==
    \E i, j \in LogIdx :
        /\ i < j
        /\ IsPending(log[i]) /\ log[i].ran
        /\ IsPending(log[j]) /\ log[j].ran
        /\ log[i].key < log[j].key
        /\ log[i].other_idx > log[j].other_idx

\* C2: once m's state differs from the state it had when
\* process_mob_interactions started, no further pending event is dispatched
\* for m in that tick: every pending dispatch happens in state_before.
C2_StopAfterStateChange ==
    \A j \in LogIdx : IsPending(log[j]) => log[j].cstate = state_before

\* Three candidates at keys 5, 10 and 15; the first handler changed the
\* state and is the only one that ran; the loop is at the second event.
C2_Witness ==
    /\ pc = "dispatch"
    /\ Len(pending) = 3
    /\ e = 2
    /\ Len(log) = 1
    /\ log[1].ran /\ log[1].key = 5
    /\ SortKey(mobs, mobs[m], pending[2]) = 10
    /\ SortKey(mobs, mobs[m], pending[3]) = 15
    /\ mobs[m].state # state_before

\* C3: touch and hitbox handlers are never queued: they run while the pair
\* is examined, by ascending m2, and so before every pending handler of m.
C3_ContactBeforePending ==
    /\ \A k \in 1..Len(pending) : pending[k].ev \in PendingEvents
    /\ \A i, j \in LogIdx :
          i < j =>
            /\ ~(IsPending(log[i]) /\ IsContact(log[j]))
            /\ (IsContact(log[i]) /\ IsContact(log[j]))
                   => log[i].other_idx <= log[j].other_idx

\* Contact handlers ran for two different m2, then a pending handler ran.
C3_Witness ==
    \E i, j, k \in LogIdx :
        /\ i < j /\ j < k
        /\ IsContact(log[i]) /\ log[i].ran
        /\ IsContact(log[j]) /\ log[j].ran
        /\ log[i].other_idx < log[j].other_idx
        /\ IsPending(log[k]) /\ log[k].ran

\* The touch-object handler is appended to the log by this step.
TouchObjectRuns ==
    /\ Len(log') > Len(log)
    /\ log'[Len(log) + 1].ev = "touch_ob"
    /\ log'[Len(log) + 1].other = mobs[m2].id
    /\ log'[Len(log) + 1].ran

\* Every contact dispatch is between mobs whose physical spans overlap.
ContactOnlyWithinSpans ==
    \A i \in LogIdx :
        IsContact(log[i]) =>
            log[i].d <= PhysicalSpan(mobs[m])
                        + PhysicalSpan(mobs[log[i].other_idx])

\* The pair is examined with overlapping spans and m can handle the touch.
SpansOverlapStep ==
    /\ pc = "touch"
    /\ GetEvent(mobs[m], "touch_ob")
    /\ ~mobs[m].to_delete

\* The bodies of the examined pair overlap and m2 can be touched.
BodiesOverlap ==
    /\ Dist(mobs[m].pos, mobs[m2].pos) <= Radius(mobs[m]) + Radius(mobs[m2])
    /\ \/ Height(mobs[m]) = 0
       \/ Height(mobs[m2]) = 0
       \/ ~(mobs[m2].z > mobs[m].z + Height(mobs[m])
            \/ mobs[m2].z + Height(mobs[m2]) < mobs[m].z)
    /\ ~mobs[m2].intangible

\* C4 as stated: no touch or hitbox handler without overlapping spans, and
\* whenever the spans of an examined pair overlap, on_touch_object runs.
C4_Original ==
    /\ [](ContactOnlyWithinSpans)
    /\ [][SpansOverlapStep => TouchObjectRuns]_vars

\* C4, amended: no touch or hitbox handler without overlapping spans; and
\* in every tick in which the pair is examined with overlapping spans, m's
\* state handles on_touch_object, m is not marked for deletion, the bodies
\* overlap (footprints collide, heights match) and m2 is tangible, the
\* handler runs -- on the first tick of contact and on every later one.
C4_TouchEveryTick ==
    /\ [](ContactOnlyWithinSpans)
    /\ [][(SpansOverlapStep /\ BodiesOverlap) => TouchObjectRuns]_vars

\* A pair whose handler ran in the previous tick has it run again; the
\* circles of this pair just touch.
C4_Witness ==
    /\ tickNo = 2
    /\ \E pr \in hist.touched \cap hist.touched_prev :
          LET i == IdxOf(mobs, pr[1])
              j == IdxOf(mobs, pr[2])
          IN  /\ i # 0 /\ j # 0
              /\ Dist(mobs[i].pos, mobs[j].pos)
                     = Radius(mobs[i]) + Radius(mobs[j])

\* C5: within one examination of a pair, each hitbox event category (A-N,
\* N-N, eat, N-A) is dispatched at most once, and the hazard event at most
\* once per hazard of one single attack hitbox.
C5_HitboxEventsOnce ==
    \A i, j \in LogIdx :
        (i < j /\ log[i].other_idx = log[j].other_idx
               /\ log[i].ev = log[j].ev /\ log[i].ev \in HitboxEvents)
            => /\ log[i].ev = "hazard"
               /\ log[i].hazard # log[j].hazard
               /\ log[i].h1 = log[j].h1
               /\ log[i].h2 = log[j].h2

\* The N-A handler and both hazard handlers have run, and a second pair of
\* overlapping Normal/Attack hitboxes is only held back by the flags.
C5_Witness ==
    /\ pc = "hitbox"
    /\ h1 <= Len(Hitboxes(mobs[m]))
    /\ h2 <= Len(Hitboxes(mobs[m2]))
    /\ Hitboxes(mobs[m])[h1].type = "normal"
    /\ Hitboxes(mobs[m2])[h2].type = "attack"
    /\ HitboxCollided(mobs[m], Hitboxes(mobs[m])[h1],
                      mobs[m2], Hitboxes(mobs[m2])[h2])
    /\ hb.na # 0 /\ hb.rep_na
    /\ hb.haz # 0 /\ hb.rep_haz
    /\ \E i, j, k \in LogIdx :
          /\ log[i].ev = "hazard" /\ log[i].hazard = 1 /\ log[i].ran
          /\ log[j].ev = "hazard" /\ log[j].hazard = 2 /\ log[j].ran
          /\ log[k].ev = "hb_na" /\ log[k].ran
          /\ log[i].h1 < h1

NoMobRemoved ==
    /\ freed' = freed
    /\ \A i \in 1..Len(mobs) : i <= Len(mobs') /\ mobs'[i].id = mobs[i].id

\* C7: no mob leaves the list while the per-mob loop runs, and after the
\* sweep no mob that was in the list at the start of the tick and is marked
\* for deletion is left in it.
C7_DeferredDeletion ==
    /\ [][(pc \in LoopPcs) => NoMobRemoved]_vars
    /\ [](pc = "leader" =>
            \A i \in 1..Len(mobs) :
                mobs[i].id \in hist.start_ids => ~mobs[i].to_delete)

\* The sweep of the first tick has destroyed two mobs.
C7_Witness ==
    /\ pc = "leader"
    /\ tickNo = 1
    /\ Cardinality(freed) = 2

\* C8: a reference to a mob is never read through after the mob was
\* destroyed; in particular cur_leader_ptr after the sweep.
C8_NoUseAfterDelete == ~hist.deref_freed

\* C9 as stated: a mob appended during the per-mob loop is not ticked, not
\* the acting mob and not the other mob of any pair in that tick.
C9_Original ==
    /\ hist.ticked \subseteq hist.start_ids
    /\ hist.acted \subseteq hist.start_ids
    /\ (pc \in ExaminingPcs => mobs[m2].id \in hist.start_ids)

\* C9, amended: a mob appended during the per-mob loop is neither ticked
\* nor processed as the acting mob until the next tick.
C9_NewMobsWaitForNextTick ==
    /\ hist.ticked \subseteq hist.start_ids
    /\ hist.acted \subseteq hist.start_ids
    /\ (pc \in LoopPcs \ {"mob_loop"} => mobs[m].id \in hist.start_ids)

\* The per-mob loop has ended and the list holds a mob spawned during it,
\* which was not ticked.
C9_Witness ==
    /\ pc = "sweep"
    /\ m = 1
    /\ \E i \in 1..Len(mobs) :
          /\ mobs[i].id \notin hist.start_ids
          /\ mobs[i].id \notin hist.ticked
          /\ mobs[i].time_alive = 0

Young(mob) == mob.time_alive <= GRACE_TIME

\* C10 as stated: the activity cull skips (m, m2) only when neither is
\* active and neither is within the grace period.
C10_Original ==
    (pc = "pair" /\ m2 <= n_mobs2 /\ m # m2
         /\ ActivityCulled(mobs[m], mobs[m2]))
        => /\ ~mobs[m].is_active /\ ~mobs[m2].is_active
           /\ ~Young(mobs[m]) /\ ~Young(mobs[m2])

\* The activity test of the pair at the head of the loop, spelled out.
C10_SkipCondition ==
    /\ "interactions" \notin MobTypes[mobs[m2].type].inactive_logic
    /\ ~mobs[m2].is_active
    /\ ~Young(mobs[m])

\* The pair at the head of the loop passes the activity test and the other
\* tests of the loop head.
C10_PassesOtherTests ==
    /\ pc = "pair" /\ m2 <= n_mobs2 /\ m # m2
    /\ ~C10_SkipCondition
    /\ ~mobs[m2].to_delete /\ ~mobs[m2].stored
    /\ ~TooFar(mobs[m], mobs[m2])

\* C10, amended: the activity cull skips (m, m2) exactly when m2's type does
\* not keep its interactions while inactive, m2 is not active this tick and
\* m has been alive for more than the grace period; so whenever m2 is
\* active or m is newly spawned, the activity cull lets the pair through.
C10_ActivityCull ==
    /\ [](pc \in ExaminingPcs => ~C10_SkipCondition)
    /\ [][C10_PassesOtherTests => pc' \in ExaminingPcs]_vars

\* A pair is examined although m2 is inactive, because m is new; and
\* (other runs) an active, old m has an inactive m2 culled.
C10_Witness ==
    /\ pc \in ExaminingPcs
    /\ ~mobs[m2].is_active
    /\ "interactions" \notin MobTypes[mobs[m2].type].inactive_logic
    /\ Young(mobs[m])


\* The pair at the head of the m2 loop reaches the broad-phase test.
AtBroadPhase ==
    /\ pc = "pair" /\ m2 <= n_mobs2 /\ m # m2
    /\ ~PairDropped(mobs[m], mobs[m2])

\* C11 as stated: the broad phase skips the pair exactly when the centre
\* distance exceeds the sum of both interaction spans; the test is
\* symmetric in m and m2.
C11_Original ==
    AtBroadPhase =>
        /\ TooFar(mobs[m], mobs[m2])
              <=> (Dist(mobs[m].pos, mobs[m2].pos)
                      > InteractionSpan(mobs[m]) + InteractionSpan(mobs[m2]))
        /\ TooFar(mobs[m], mobs[m2]) <=> TooFar(mobs[m2], mobs[m])

\* The distance between the limits of the pair at the head of the loop
\* exceeds the acting mob's interaction span plus the other's physical span.
C11_BeyondSpans ==
    GetDistanceBetween(mobs[m], mobs[m2], Dist(mobs[m].pos, mobs[m2].pos))
        > MobTypes[mobs[m].type].interaction_span
          + MobTypes[mobs[m2].type].physical_span

\* C11, amended: the broad phase skips the pair exactly when the distance
\* between the two mobs' limits exceeds the acting mob's interaction span
\* plus the other mob's physical span; the test is not symmetric.
C11_BroadPhase ==
    [][AtBroadPhase => ((pc' = "pair") <=> C11_BeyondSpans)]_vars

\* The acting mob is about to skip a mob that, when it is its turn to act,
\* does not skip the acting mob: its own interaction span is larger.
C11_Witness ==
    /\ AtBroadPhase
    /\ C11_BeyondSpans
    /\ ~PairDropped(mobs[m2], mobs[m])
    /\ GetDistanceBetween(mobs[m2], mobs[m],
                          Dist(mobs[m].pos, mobs[m2].pos))
           <= MobTypes[mobs[m2].type].interaction_span
              + MobTypes[mobs[m].type].physical_span


\* The state right after update_area_active_cells and
\* update_mob_is_active_flag, before the first mob is ticked.
AfterActivityUpdate == pc = "mob_loop" /\ m = 1

\* C12: after update_mob_is_active_flag every mob that has a parent has
\* the same is_active as its parent, for chains of any depth and any
\* iteration order of the child set.
C12_ParentChildAgree ==
    AfterActivityUpdate =>
        \A c \in 1..Len(mobs) :
            LET p == IdxOf(mobs, mobs[c].parent)
            IN  (mobs[c].parent # NoMob /\ p # 0)
                    => mobs[c].is_active = mobs[p].is_active

\* The grid cell that contains a position (columns and rows count from the
\* top-left corner of the grid; a point left of or above it has a negative
\* index).
CellOf(p) ==
    <<(p.x - BMAP_TOP_LEFT.x) \div AREA_CELL_SIZE,
      (p.y - BMAP_TOP_LEFT.y) \div AREA_CELL_SIZE>>

GridCells == (0..(GRID_COLS - 1)) \X (0..(GRID_ROWS - 1))

HasLinks(c) ==
    \/ mobs[c].parent # NoMob
    \/ \E k \in 1..Len(mobs) : mobs[k].parent = mobs[c].id

\* C13: after update_mob_is_active_flag a mob without parent/child links
\* has the flag of the grid cell that contains its position, and a mob
\* whose position is outside the grid, on any side, is inactive.
C13_CellFlag ==
    AfterActivityUpdate =>
        \A c \in 1..Len(mobs) :
            ~HasLinks(c) =>
                mobs[c].is_active
                    = (/\ CellOf(mobs[c].pos) \in GridCells
                       /\ CellOf(mobs[c].pos) \in area_active_cells)

\* The cells of the rectangle from top_left to bottom_right.
CellsSpanned(top_left, bottom_right) ==
    {c \in GridCells :
        /\ CellOf(top_left)[1] <= c[1] /\ c[1] <= CellOf(bottom_right)[1]
        /\ CellOf(top_left)[2] <= c[2] /\ c[2] <= CellOf(bottom_right)[2]}

CellsAround(p) ==
    CellsSpanned([x |-> p.x - AREA_CELL_SIZE, y |-> p.y - AREA_CELL_SIZE],
                 [x |-> p.x + AREA_CELL_SIZE, y |-> p.y + AREA_CELL_SIZE])

\* C14: after update_area_active_cells a cell is active if and only if it
\* is an in-bounds cell of the rectangle spanning position +/- one cell
\* size of some Pikmin or leader, or of the camera box; no flag survives
\* from the previous tick.
C14_ActiveCells ==
    AfterActivityUpdate =>
        area_active_cells
            = UNION {CellsAround(mobs[i].pos) :
                        i \in PikminList(mobs) \cup Leaders(mobs)}
              \cup CellsSpanned(cam_box[1], cam_box[2])


\* The three conditions of the skip, for one mob.
C15_SkipCondition(mob) ==
    /\ "ticks" \notin MobTypes[mob.type].inactive_logic
    /\ ~mob.is_active
    /\ mob.time_alive > GRACE_TIME

\* The per-mob loop is at a mob of the list as it was at loop start.
C15_AtMob == pc = "mob_loop" /\ m <= n_mobs

\* The loop passes over the mob: no tick, no interactions, nothing changes.
C15_PassedOver ==
    /\ pc' = "mob_loop" /\ m' = m + 1
    /\ mobs' = mobs /\ log' = log
    /\ hist'.ticked = hist.ticked /\ hist'.acted = hist.acted

\* The loop ticks the mob.
C15_Ticked == hist'.ticked = hist.ticked \cup {mobs[m].id}

\* C15: in the per-mob loop a mob is skipped (not ticked, not processed as
\* acting mob) if and only if its type does not keep ticking while
\* inactive, it is not active this tick and it has been alive for more than
\* the grace window; every other mob present at loop start is ticked.
C15_InactiveSkip ==
    /\ [][C15_AtMob =>
            IF C15_SkipCondition(mobs[m]) THEN C15_PassedOver
            ELSE C15_Ticked]_vars
    /\ [](pc = "sweep" =>
            \A i \in 1..Len(mobs) :
                mobs[i].id \in hist.start_ids =>
                    \/ mobs[i].id \in hist.ticked
                    \/ C15_SkipCondition(mobs[i]))

\* The loop has ended having skipped an inactive mob, ticked an inactive
\* mob whose type keeps ticking, and ticked an inactive mob that is new.
C15_Witness ==
    /\ pc = "sweep"
    /\ tickNo = 1
    /\ \E i, j, k \in 1..Len(mobs) :
          /\ mobs[i].id \in hist.start_ids /\ mobs[i].id \notin hist.ticked
          /\ ~mobs[j].is_active /\ mobs[j].id \in hist.ticked
          /\ "ticks" \in MobTypes[mobs[j].type].inactive_logic
          /\ ~mobs[k].is_active /\ mobs[k].id \in hist.ticked
          /\ "ticks" \notin MobTypes[mobs[k].type].inactive_logic
          /\ mobs[k].time_alive <= GRACE_TIME


(***************************************************************************)
(* The script FSM runtime.  A script is data: per state and per event an   *)
(* ordered action list in which if / else / end_if are flattened markers.  *)
(* Script numbers are fixed-point, in hundredths, so that 0.1 s is 10 and  *)
(* the integer 3 is 300; strings are kept as they are.                     *)
(***************************************************************************)

\* Largest depth of synchronous run_event re-entrancy.
MaxDepth == 3

\* A script value: a number (num, n in hundredths) or a string (s); an
\* operand of an action is a literal value or a variable lookup (ref).
Num(h) == [num |-> TRUE, n |-> h, s |-> "", ref |-> ""]

N(i) == Num(i * 100)

Str(t) == [num |-> FALSE, n |-> 0, s |-> t, ref |-> ""]

Var(name) == [num |-> FALSE, n |-> 0, s |-> "", ref |-> name]

\* Absent variables read as the default value, the empty string.
DefaultValue == Str("")

\* One entry of a flattened action list.
Call(op, a, b, cmp, v, w) ==
    [op |-> op, a |-> a, b |-> b, cmp |-> cmp, v |-> v, w |-> w]

\* Actions whose effect is outside the FSM state (animation, movement,
\* sound, particles, reaches, focus, chomping).
do(op) == Call(op, "", "", "", DefaultValue, DefaultValue)

set_var(name, v) == Call("set_var", name, "", "", v, DefaultValue)

set_state(s) == Call("set_state", s, "", "", DefaultValue, DefaultValue)

set_timer(v) == Call("set_timer", "", "", "", v, DefaultValue)

add_health(v) == Call("add_health", "", "", "", v, DefaultValue)

get_event_info(name, what) ==
    Call("get_event_info", name, what, "", DefaultValue, DefaultValue)

get_mob_info(name, what) ==
    Call("get_mob_info", name, what, "", DefaultValue, DefaultValue)

get_random_float(name, lo, hi) ==
    Call("get_random_float", name, "", "", lo, hi)

if_(v, cmp, w) == Call("if", "", "", cmp, v, w)

else_ == do("else")

end_if == do("end_if")


\* Variant: the timer handler leaves the variable capturing alone.
FlukeweedCapturingKept ==
    [on_enter |-> <<set_timer(Num(10))>>,
     on_timer |-> <<set_state("idling")>>,
     on_touch_object |->
        <<if_(Var("capturing"), "=", Str("true")),
              do("focus"),
              do("store_focus_inside"),
          end_if>>]

\* The flukeweed's script, state by state.
FlukeweedCapturing ==
    [on_enter |-> <<set_timer(Num(10))>>,
     on_timer |-> <<set_var("capturing", Str("false")),
                    set_state("idling")>>,
     on_touch_object |->
        <<if_(Var("capturing"), "=", Str("true")),
              do("focus"),
              do("store_focus_inside"),
          end_if>>]

FlukeweedIdling ==
    [on_enter |-> <<do("set_animation")>>,
     on_receive_message |->
        <<if_(Var("msg"), "=", Str("goal_reached")),
              set_state("pulled"),
          end_if>>]

\* Variant: the slowest interval is chosen below power 3 only.
FlukeweedPulledBelow ==
    [on_enter |->
        <<do("set_animation"),
          get_mob_info("p", "group_task_power"),
          if_(Var("p"), "<", N(3)),
              set_timer(Num(150)),
          else_,
              if_(Var("p"), "=", N(4)),
                  set_timer(Num(125)),
              else_,
                  set_timer(Num(100)),
              end_if,
          end_if>>,
     on_timer |->
        <<add_health(N(-20)),
          get_mob_info("p", "group_task_power"),
          if_(Var("p"), "<", N(3)),
              set_timer(Num(150)),
          else_,
              if_(Var("p"), "=", N(4)),
                  set_timer(Num(125)),
              else_,
                  set_timer(Num(100)),
              end_if,
          end_if>>,
     on_receive_message |->
        <<if_(Var("msg"), "=", Str("goal_lost")),
              set_state("idling"),
          end_if>>]

FlukeweedPulled ==
    [on_enter |->
        <<do("set_animation"),
          get_mob_info("p", "group_task_power"),
          if_(Var("p"), "<=", N(3)),
              set_timer(Num(150)),
          else_,
              if_(Var("p"), "=", N(4)),
                  set_timer(Num(125)),
              else_,
                  set_timer(Num(100)),
              end_if,
          end_if>>,
     on_timer |->
        <<add_health(N(-20)),
          get_mob_info("p", "group_task_power"),
          if_(Var("p"), "<=", N(3)),
              set_timer(Num(150)),
          else_,
              if_(Var("p"), "=", N(4)),
                  set_timer(Num(125)),
              else_,
                  set_timer(Num(100)),
              end_if,
          end_if>>,
     on_receive_message |->
        <<if_(Var("msg"), "=", Str("goal_lost")),
              set_state("idling"),
          end_if>>]

\* Variant: a message received in dying takes the flukeweed back to idling.
FlukeweedDyingRevives ==
    [on_enter |-> <<do("set_animation"),
                    do("release_stored_mobs"),
                    do("start_particles"),
                    do("set_shadow_visibility")>>,
     on_receive_message |-> <<set_state("idling")>>,
     on_animation_end |-> <<do("delete")>>]

FlukeweedDying ==
    [on_enter |-> <<do("set_animation"),
                    do("release_stored_mobs"),
                    do("start_particles"),
                    do("set_shadow_visibility")>>,
     on_animation_end |-> <<do("delete")>>]

Flukeweed ==
    [first_state |-> "capturing",
     death_state |-> "dying",
     init |-> <<set_var("capturing", Str("true"))>>,
     global |->
        [on_receive_message |-> <<get_event_info("msg", "message")>>],
     states |->
        [capturing |-> FlukeweedCapturing,
         idling |-> FlukeweedIdling,
         pulled |-> FlukeweedPulled,
         dying |-> FlukeweedDying]]

\* The script of the wandering enemy.
Enemy ==
    [first_state |-> "exploring",
     death_state |-> "dying",
     init |-> <<set_var("ignoring", Str("false"))>>,
     global |-> <<>>,
     states |->
        [exploring |->
            [on_enter |-> <<do("set_animation"),
                            get_random_float("t", Num(80), Num(120)),
                            set_timer(Var("t")),
                            do("set_near_reach"),
                            get_random_float("x", N(-1000), N(1000)),
                            get_random_float("y", N(-1000), N(1000)),
                            do("move_to_relative")>>,
             on_leave |-> <<set_timer(N(0))>>,
             on_timer |-> <<get_random_float("x", N(-1000), N(1000)),
                            get_random_float("y", N(-1000), N(1000)),
                            do("move_to_relative"),
                            get_random_float("t", Num(80), Num(120)),
                            set_timer(Var("t"))>>,
             on_opponent_in_reach |-> <<do("focus"), set_state("chasing")>>,
             on_far_from_home |-> <<set_state("returning")>>,
             on_pikmin_land |-> <<set_state("dying")>>],
         chasing |->
            [on_enter |-> <<do("move_to_target"),
                            do("set_near_reach"),
                            do("set_far_reach")>>,
             on_opponent_in_reach |-> <<set_state("attacking")>>,
             on_focus_off_reach |-> <<set_state("exploring")>>,
             on_far_from_home |-> <<set_state("returning")>>,
             on_pikmin_land |-> <<set_state("dying")>>],
         attacking |->
            [on_enter |-> <<do("stop"),
                            do("set_animation"),
                            do("start_chomping")>>,
             on_animation_end |->
                <<do("stop_chomping"),
                  get_mob_info("t", "chomped_pikmin"),
                  if_(Var("t"), ">", N(0)),
                      set_state("eating"),
                  else_,
                      set_state("exploring"),
                  end_if>>],
         eating |->
            [on_enter |-> <<do("set_animation")>>,
             on_animation_end |-> <<do("swallow_all"),
                                    do("play_sound"),
                                    set_state("exploring")>>,
             on_pikmin_land |-> <<set_state("dying")>>],
         returning |->
            [on_enter |-> <<do("move_to_target"),
                            set_timer(N(2)),
                            do("set_near_reach")>>,
             on_leave |-> <<set_timer(N(0))>>,
             on_timer |-> <<set_var("ignoring", Str("false"))>>,
             on_reach_destination |-> <<set_state("exploring")>>,
             on_opponent_in_reach |->
                <<if_(Var("ignoring"), "=", Str("false")),
                      do("focus"),
                      set_state("chasing"),
                  end_if>>,
             on_pikmin_land |-> <<set_state("dying")>>],
         dying |->
            [on_enter |-> <<do("start_dying"), do("set_animation")>>,
             on_animation_end |-> <<do("finish_dying")>>]]]

\* An instrumented script: its lists go on after a set_state, request
\* several states in one list, request a state the type does not have,
\* and record what they see in variables.
Probe ==
    [first_state |-> "a",
     death_state |-> "",
     init |-> <<>>,
     global |-> [on_timer |-> <<set_var("g", Str("global"))>>],
     states |->
        [a |->
            [on_enter |-> <<set_timer(N(1))>>,
             on_leave |-> <<set_var("y", Str("left_a")),
                            set_timer(N(5))>>,
             on_timer |-> <<set_state("b"),
                            set_var("x", Str("after_b")),
                            set_state("c"),
                            set_timer(N(2))>>,
             on_animation_end |-> <<set_state("b"),
                                    set_var("x", Str("after_b"))>>],
         b |->
            [on_enter |-> <<set_var("y", Str("entered_b"))>>],
         c |->
            [on_enter |-> <<set_var("y", Str("entered_c")),
                            set_timer(N(3)),
                            set_state("nowhere")>>,
             on_animation_end |-> <<set_state("a")>>]]]

ScriptTypes == {"flukeweed", "enemy", "probe"}

Script(type) ==
    CASE type = "flukeweed" -> Flukeweed
      [] type = "enemy" -> Enemy
      [] type = "probe" -> Probe

VarNames == {"capturing", "msg", "p", "ignoring", "t", "x", "y", "g"}

Messages == {"goal_reached", "goal_lost", "ping"}

ScriptEvents ==
    {"on_touch_object", "on_animation_end", "on_opponent_in_reach",
     "on_far_from_home", "on_pikmin_land", "on_focus_off_reach",
     "on_reach_destination"}


\* Strings in lexicographic order, as far as the scripts compare them;
\* the text of a number sorts after the empty string and before letters.
LexOrder == <<"", "0", "false", "goal_lost", "goal_reached", "ping", "true">>

LexRank(x) ==
    IF x.num THEN 2
    ELSE IF \E i \in 1..Len(LexOrder) : LexOrder[i] = x.s
         THEN CHOOSE i \in 1..Len(LexOrder) : LexOrder[i] = x.s
         ELSE Len(LexOrder) + 1

\* The order of two values: numeric when both are numbers, else
\* lexicographic on their text.  -1, 0 or 1.
Order(x, y) ==
    IF x.num /\ y.num
    THEN IF x.n < y.n THEN -1 ELSE IF x.n > y.n THEN 1 ELSE 0
    ELSE IF x.num = y.num /\ x.s = y.s THEN 0
    ELSE IF LexRank(x) < LexRank(y) THEN -1 ELSE 1

Compare(cmp, x, y) ==
    CASE cmp = "=" -> Order(x, y) = 0
      [] cmp = "!=" -> Order(x, y) # 0
      [] cmp = "<" -> Order(x, y) < 0
      [] cmp = "<=" -> Order(x, y) <= 0
      [] cmp = ">" -> Order(x, y) > 0
      [] cmp = ">=" -> Order(x, y) >= 0

\* An operand: a literal, or the value of a variable.
Resolve(mob, o) == IF o.ref # "" THEN mob.vars[o.ref] ELSE o

\* Health stays within [0, max_health].
ClampHealth(mob, h) == Max(0, Min(mob.max_health, h))

\* Variant: set_state switches the current state at once.
RunActionAtOnce(mob, act, info) ==
    CASE act.op = "set_var" ->
            [mob EXCEPT !.vars[act.a] = Resolve(mob, act.v)]
      [] act.op = "set_state" ->
            [mob EXCEPT !.cur_state = act.a, !.script_timer = 0]
      [] act.op = "set_timer" ->
            [mob EXCEPT !.script_timer = Resolve(mob, act.v).n]
      [] act.op = "add_health" ->
            [mob EXCEPT !.health =
                ClampHealth(mob,
                    mob.health + TruncDiv(Resolve(mob, act.v).n, 100))]
      [] act.op = "get_event_info" ->
            [mob EXCEPT !.vars[act.a] =
                IF act.b = "message" THEN Str(info) ELSE DefaultValue]
      [] act.op = "get_mob_info" ->
            [mob EXCEPT !.vars[act.a] =
                IF act.b = "group_task_power" THEN N(mob.power)
                ELSE IF act.b = "chomped_pikmin" THEN N(mob.chomped)
                ELSE DefaultValue]
      [] act.op = "get_random_float" ->
            [mob EXCEPT !.vars[act.a] =
                Num(act.v.n + (mob.rnd * (act.w.n - act.v.n)) \div 2)]
      [] act.op = "delete" ->
            [mob EXCEPT !.to_delete = TRUE]
      [] OTHER -> mob

\* The effect of one action on the mob.  set_state only records the
\* requested state.
RunAction(mob, act, info) ==
    CASE act.op = "set_var" ->
            [mob EXCEPT !.vars[act.a] = Resolve(mob, act.v)]
      [] act.op = "set_state" ->
            [mob EXCEPT !.req = act.a]
      [] act.op = "set_timer" ->
            [mob EXCEPT !.script_timer = Resolve(mob, act.v).n]
      [] act.op = "add_health" ->
            [mob EXCEPT !.health =
                ClampHealth(mob,
                    mob.health + TruncDiv(Resolve(mob, act.v).n, 100))]
      [] act.op = "get_event_info" ->
            [mob EXCEPT !.vars[act.a] =
                IF act.b = "message" THEN Str(info) ELSE DefaultValue]
      [] act.op = "get_mob_info" ->
            [mob EXCEPT !.vars[act.a] =
                IF act.b = "group_task_power" THEN N(mob.power)
                ELSE IF act.b = "chomped_pikmin" THEN N(mob.chomped)
                ELSE DefaultValue]
      [] act.op = "get_random_float" ->
            [mob EXCEPT !.vars[act.a] =
                Num(act.v.n + (mob.rnd * (act.w.n - act.v.n)) \div 2)]
      [] act.op = "delete" ->
            [mob EXCEPT !.to_delete = TRUE]
      [] OTHER -> mob

\* The action together with the record of its execution: what ran, in
\* which current state, at which depth of run_event, from which index of
\* its list and, for an if, whether its condition was true.
Step(mob, act, info, depth, ip) ==
    [RunAction(mob, act, info) EXCEPT
        !.ran = Append(mob.ran,
                       [op |-> act.op, a |-> act.a,
                        state |-> mob.cur_state,
                        depth |-> depth, ip |-> ip,
                        taken |-> (act.op = "if"
                                   /\ Compare(act.cmp, Resolve(mob, act.v),
                                              Resolve(mob, act.w)))])]

\* Index after the end_if that matches (or, for a false if, after the
\* else that matches), scanning from i at nesting depth d.
RECURSIVE SkipPast(_, _, _, _)
\* Variant: a false if is not skipped.
SkipPastNone(list, i, d, stop_at_else) == i

SkipPast(list, i, d, stop_at_else) ==
    IF i > Len(list) THEN i
    ELSE IF list[i].op = "if"
         THEN SkipPast(list, i + 1, d + 1, stop_at_else)
    ELSE IF list[i].op = "end_if"
         THEN IF d = 0 THEN i + 1
              ELSE SkipPast(list, i + 1, d - 1, stop_at_else)
    ELSE IF list[i].op = "else" /\ d = 0 /\ stop_at_else THEN i + 1
    ELSE SkipPast(list, i + 1, d, stop_at_else)

\* The instruction pointer after the action at ip.
NextIp(mob, list, ip) ==
    IF list[ip].op = "if"
    THEN IF Compare(list[ip].cmp, Resolve(mob, list[ip].v),
                    Resolve(mob, list[ip].w))
         THEN ip + 1
         ELSE SkipPast(list, ip + 1, 0, TRUE)
    ELSE IF list[ip].op = "else" THEN SkipPast(list, ip + 1, 0, FALSE)
    ELSE ip + 1

\* Runs the list from ip to its end.
RECURSIVE RunList(_, _, _, _, _)
RunList(mob, list, ip, info, depth) ==
    IF ip > Len(list) THEN mob
    ELSE RunList(Step(mob, list[ip], info, depth, ip), list,
                 NextIp(mob, list, ip), info, depth)

\* The list run_event executes: the state's, else the global one, else
\* none.
HasStateHandler(mob, ev) ==
    /\ mob.cur_state \in DOMAIN Script(mob.type).states
    /\ ev \in DOMAIN Script(mob.type).states[mob.cur_state]

HasGlobalHandler(mob, ev) == ev \in DOMAIN Script(mob.type).global

\* Variant: the global list runs ahead of the state's list.
EventListMerged(mob, ev) ==
    (IF HasGlobalHandler(mob, ev) THEN Script(mob.type).global[ev]
     ELSE <<>>)
    \o (IF HasStateHandler(mob, ev)
        THEN Script(mob.type).states[mob.cur_state][ev]
        ELSE <<>>)

\* The state's list, else the global one, else none.
EventList(mob, ev) ==
    IF HasStateHandler(mob, ev)
    THEN Script(mob.type).states[mob.cur_state][ev]
    ELSE IF HasGlobalHandler(mob, ev) THEN Script(mob.type).global[ev]
    ELSE <<>>

\* The state index is swapped and the script timer reset.
SwapState(mob, new_state) ==
    [mob EXCEPT !.cur_state = new_state, !.script_timer = 0, !.req = ""]

\* Variant: any requested state is accepted.
ValidRequestAlways(mob) == TRUE

\* The requested state is a state of the mob's type; a request for any
\* other is ignored.
ValidRequest(mob) == mob.req \in DOMAIN Script(mob.type).states

\* run_event: runs the list, then makes the requested transition:
\* on_leave on the old state, swap, on_enter on the new state.
RECURSIVE RunEvent(_, _, _, _)
\* Variant: the script timer is reset after on_enter instead of before.
FinishEventResetLast(mob, info, depth) ==
    IF mob.req = "" THEN mob
    ELSE IF ~ValidRequest(mob) THEN [mob EXCEPT !.req = ""]
    ELSE [RunEvent(
            [RunEvent([mob EXCEPT !.req = ""], "on_leave", info, depth + 1)
                EXCEPT !.cur_state = mob.req, !.req = ""],
            "on_enter", info, depth + 1)
          EXCEPT !.script_timer = 0]

FinishEvent(mob, info, depth) ==
    IF mob.req = "" THEN mob
    ELSE IF ~ValidRequest(mob) THEN [mob EXCEPT !.req = ""]
    ELSE RunEvent(
            SwapState(RunEvent([mob EXCEPT !.req = ""], "on_leave", info,
                               depth + 1),
                      mob.req),
            "on_enter", info, depth + 1)

RunEvent(mob, ev, info, depth) ==
    IF mob.to_delete \/ depth > MaxDepth THEN mob
    ELSE FinishEvent(
            RunList([mob EXCEPT !.req = ""], EventList(mob, ev), 1, info,
                    depth),
            info, depth)


\* Inputs of the script runs.
SpawnHealths == {40, 60}

Powers == 2..6

DamageAmounts == {40, 60}

(***************************************************************************)
(* The scripted mob: its script state, what the engine reports to its      *)
(* info getters (power, chomped, rnd), and a record of the last event      *)
(* raised on it (last) with the actions that event executed (ran) and of   *)
(* the death transitions made so far (deaths).                             *)
(***************************************************************************)
Blank(type, health, power) ==
    [type |-> type, cur_state |-> "", req |-> "",
     vars |-> [v \in VarNames |-> DefaultValue],
     script_timer |-> 0, health |-> health, max_health |-> health,
     to_delete |-> FALSE, power |-> power, chomped |-> 0, rnd |-> 1,
     ran |-> <<>>, last |-> [ev |-> "spawn", msg |-> ""], deaths |-> 0]

\* The engine forces a transition to new_state.
ForceState(mob, new_state) ==
    FinishEvent([mob EXCEPT !.req = new_state], "", 0)

\* A mob as created: the init block has run and first_state is entered.
Spawn(type, health, power) ==
    RunEvent(
        SwapState(RunList(Blank(type, health, power), Script(type).init,
                          1, "", 0),
                  Script(type).first_state),
        "on_enter", "", 0)

\* The engine raises ev on the mob, with a message for
\* on_receive_message.
Raise(mob, ev, msg) ==
    RunEvent([mob EXCEPT !.ran = <<>>, !.last = [ev |-> ev, msg |-> msg]],
             ev, msg, 0)

gameplay_vars == <<mobs, freed, next_id, cur_leader_ptr, cur_leader_idx,
                   available_leaders, area_active_cells, cam_box,
                   pc, tickNo, n_mobs, m, n_mobs2, m2, h1, h2, hb,
                   state_before, pending, e, log, budget, hist>>

\* No area is loaded: the gameplay tick is not running.
NoArea ==
    /\ mobs = <<>>
    /\ freed = {}
    /\ next_id = 1
    /\ cur_leader_ptr = NoMob
    /\ cur_leader_idx = INVALID_IDX
    /\ available_leaders = <<>>
    /\ area_active_cells = {}
    /\ cam_box = CamBox(0, 0)
    /\ pc = "idle"
    /\ tickNo = 0
    /\ n_mobs = 0
    /\ m = 0
    /\ n_mobs2 = 0
    /\ m2 = 0
    /\ h1 = 0
    /\ h2 = 0
    /\ hb = NoHb
    /\ state_before = 0
    /\ pending = <<>>
    /\ e = 0
    /\ log = <<>>
    /\ budget = [effects |-> 0, spawns |-> 0]
    /\ hist = [start_ids |-> {}, ticked |-> {}, acted |-> {},
               touched |-> {}, touched_prev |-> {},
               tick_on_deleted |-> FALSE, deref_freed |-> FALSE]

ScriptInit ==
    /\ \E type \in ScriptTypes, health \in SpawnHealths, power \in Powers :
          /\ type # "flukeweed" => (health = 60 /\ power = 2)
          /\ scripted = Spawn(type, health, power)
    /\ pushing = NoPushing
    /\ lead = NoLead
    /\ mobs = <<>>
    /\ freed = {}
    /\ next_id = 1
    /\ cur_leader_ptr = NoMob
    /\ cur_leader_idx = INVALID_IDX
    /\ available_leaders = <<>>
    /\ area_active_cells = {}
    /\ cam_box = CamBox(0, 0)
    /\ pc = "idle"
    /\ tickNo = 0
    /\ n_mobs = 0
    /\ m = 0
    /\ n_mobs2 = 0
    /\ m2 = 0
    /\ h1 = 0
    /\ h2 = 0
    /\ hb = NoHb
    /\ state_before = 0
    /\ pending = <<>>
    /\ e = 0
    /\ log = <<>>
    /\ budget = [effects |-> 0, spawns |-> 0]
    /\ hist = [start_ids |-> {}, ticked |-> {}, acted |-> {},
               touched |-> {}, touched_prev |-> {},
               tick_on_deleted |-> FALSE, deref_freed |-> FALSE]

\* The script timer crosses zero: it is inactive while on_timer runs.  A
\* mob whose health has hit 0 is taken to its death state first.
TimerExpires ==
    /\ scripted.script_timer > 0
    /\ ~(scripted.health = 0 /\ ~scripted.to_delete
         /\ scripted.cur_state # Script(scripted.type).death_state)
    /\ scripted' = Raise([scripted EXCEPT !.script_timer = 0],
                         "on_timer", "")
    /\ UNCHANGED <<gameplay_vars, pushing, lead>>

\* Another mob sends a message.
ReceiveMessage ==
    /\ \E msg \in Messages :
          scripted' = Raise(scripted, "on_receive_message", msg)
    /\ UNCHANGED <<gameplay_vars, pushing, lead>>

\* The engine raises one of its other events.
RaiseEvent ==
    /\ \E ev \in ScriptEvents : scripted' = Raise(scripted, ev, "")
    /\ UNCHANGED <<gameplay_vars, pushing, lead>>

\* The power of the group task changes.
PowerChanges ==
    /\ scripted.type = "flukeweed"
    /\ \E p \in Powers \ {scripted.power} :
          scripted' = [scripted EXCEPT !.power = p]
    /\ UNCHANGED <<gameplay_vars, pushing, lead>>

\* The chomped Pikmin and the random source change.
ChompChanges ==
    /\ scripted.type = "enemy"
    /\ \E c \in {0, 1}, r \in {0, 1, 2} :
          /\ <<c, r>> # <<scripted.chomped, scripted.rnd>>
          /\ scripted' = [scripted EXCEPT !.chomped = c, !.rnd = r]
    /\ UNCHANGED <<gameplay_vars, pushing, lead>>

\* Variant: the death transition is made whatever the current state.
DieAgain ==
    /\ scripted.health = 0
    /\ ~scripted.to_delete
    /\ Script(scripted.type).death_state # ""
    /\ scripted' =
          ForceState([scripted EXCEPT
                         !.ran = <<>>,
                         !.deaths = @ + 1,
                         !.last = [ev |-> "death", msg |-> ""]],
                     Script(scripted.type).death_state)
    /\ UNCHANGED <<gameplay_vars, pushing, lead>>

\* Health has hit 0: the engine forces the death state once, or deletes
\* the mob when its type has none.
Die ==
    /\ scripted.health = 0
    /\ ~scripted.to_delete
    /\ scripted.cur_state # Script(scripted.type).death_state
    /\ scripted' =
          IF Script(scripted.type).death_state = ""
          THEN [scripted EXCEPT !.to_delete = TRUE,
                                !.deaths = @ + 1,
                                !.last = [ev |-> "death", msg |-> ""]]
          ELSE ForceState([scripted EXCEPT
                              !.ran = <<>>,
                              !.deaths = @ + 1,
                              !.last = [ev |-> "death", msg |-> ""]],
                          Script(scripted.type).death_state)
    /\ UNCHANGED <<gameplay_vars, pushing, lead>>

\* Another mob's attack takes health off the enemy.
Damage ==
    /\ scripted.type = "enemy"
    /\ ~scripted.to_delete
    /\ scripted.health > 0
    /\ \E amount \in DamageAmounts :
          scripted' = [scripted EXCEPT
                          !.health = ClampHealth(scripted, @ - amount),
                          !.ran = <<>>,
                          !.last = [ev |-> "damage", msg |-> ""]]
    /\ UNCHANGED <<gameplay_vars, pushing, lead>>

ScriptNext ==
    \/ TimerExpires
    \/ ReceiveMessage
    \/ RaiseEvent
    \/ PowerChanges
    \/ ChompChanges
    \/ Die
    \/ Damage

ScriptSpec == ScriptInit /\ [][ScriptNext]_vars


(***************************************************************************)
(* Properties of the script FSM runtime and of the flukeweed's script.     *)
(***************************************************************************)

\* The step raises an event on a mob that is not marked for deletion.
EventStep ==
    /\ ~scripted.to_delete
    /\ scripted'.last.ev \notin {"spawn", "death", "damage"}
    /\ scripted'.power = scripted.power
    /\ scripted'.chomped = scripted.chomped
    /\ scripted'.rnd = scripted.rnd

\* The action list starts the record of what the event executed.
StartsWith(list) ==
    /\ scripted'.ran # <<>>
    /\ scripted'.ran[1].op = list[1].op
    /\ scripted'.ran[1].a = list[1].a
    /\ scripted'.ran[1].state = scripted.cur_state
    /\ scripted'.ran[1].depth = 0
    /\ scripted'.ran[1].ip = 1

\* No action that only the global list holds was executed.
GlobalListNotRun(ev) ==
    \A i \in 1..Len(scripted'.ran) :
       \A j \in 1..Len(Script(scripted.type).global[ev]) :
          \/ scripted'.ran[i].op # Script(scripted.type).global[ev][j].op
          \/ scripted'.ran[i].a # Script(scripted.type).global[ev][j].a

\* Nothing of the mob's script state changes.
ScriptStateKept ==
    /\ scripted'.ran = <<>>
    /\ scripted'.cur_state = scripted.cur_state
    /\ scripted'.vars = scripted.vars
    /\ scripted'.health = scripted.health
    /\ scripted'.to_delete = scripted.to_delete
    /\ scripted'.script_timer \in {0, scripted.script_timer}

C16_Step ==
    /\ HasStateHandler(scripted, scripted'.last.ev) =>
          /\ StartsWith(Script(scripted.type).states[scripted.cur_state]
                            [scripted'.last.ev])
          /\ HasGlobalHandler(scripted, scripted'.last.ev) =>
                GlobalListNotRun(scripted'.last.ev)
    /\ (/\ ~HasStateHandler(scripted, scripted'.last.ev)
        /\ HasGlobalHandler(scripted, scripted'.last.ev)) =>
          StartsWith(Script(scripted.type).global[scripted'.last.ev])
    /\ (/\ ~HasStateHandler(scripted, scripted'.last.ev)
        /\ ~HasGlobalHandler(scripted, scripted'.last.ev)) =>
          ScriptStateKept

\* The pair of hitboxes under examination is a colliding pair of a Normal
\* hitbox of m and an Attack hitbox of m2.
NormalVsAttack ==
    /\ pc = "hitbox"
    /\ h1 <= Len(Hitboxes(mobs[m]))
    /\ h2 <= Len(Hitboxes(mobs[m2]))
    /\ Hitboxes(mobs[m])[h1].type = "normal"
    /\ Hitboxes(mobs[m2])[h2].type = "attack"
    /\ HitboxCollided(mobs[m], Hitboxes(mobs[m])[h1],
                      mobs[m2], Hitboxes(mobs[m2])[h2])

\* m2 may not hurt m, m resists the hazards the attack hitbox carries, or a
\* status that disables attacks is in effect on the attacker.
AttackBlocked ==
    \/ ~CanHurt(mobs[m2], mobs[m])
    \/ /\ Hitboxes(mobs[m2])[h2].hazards > 0
       /\ TypeOf(mobs[m]).resistant
    \/ mobs[m2].disables_attack

DamageEvents == {"hb_eat", "hazard", "hb_na"}

NoDamageEventAdded ==
    /\ Len(log') >= Len(log)
    /\ \A i \in (Len(log) + 1)..Len(log') : log'[i].ev \notin DamageEvents

\* C25: for a colliding pair of a Normal hitbox of m and an Attack hitbox of
\* m2, none of the eat, hazard-touch and Normal-vs-Attack handlers is run
\* on m when m2 may not hurt m, when m resists the hazards of the attack
\* hitbox, or when a status that disables attacks is in effect.
C25_NoDamageWhenBlocked ==
    [][(NormalVsAttack /\ AttackBlocked) => NoDamageEventAdded]_vars

\* The hazard-resistant follower has been through the biter's attack
\* hitbox (hazards it resists) and through the attack hitbox of a mob of
\* its own team; it has handlers for the three events, none of them is
\* latched, and none was dispatched.
C25_Witness ==
    /\ pc = "hitbox"
    /\ mobs[m].type = "immune" /\ mobs[m2].type = "ally"
    /\ h1 = 1 /\ h2 = 3
    /\ hb.eat # 0 /\ hb.haz # 0 /\ hb.na # 0
    /\ ~hb.rep_eat /\ ~hb.rep_haz /\ ~hb.rep_na
    /\ \E i \in LogIdx : mobs[log[i].other_idx].type = "biter"
    /\ \A i \in LogIdx : log[i].ev \notin DamageEvents

\* The Pikmin has been through the attack hitbox of a biter whose attacks
\* a status disables, and none of the three events was dispatched.
C25_Stunned ==
    /\ pc = "hitbox"
    /\ mobs[m].type = "pikmin" /\ mobs[m2].disables_attack
    /\ h1 = 1 /\ h2 = 3
    /\ hb.eat # 0 /\ hb.haz # 0 /\ hb.na # 0
    /\ \A i \in LogIdx : log[i].ev \notin DamageEvents

MessageInIdling ==
    /\ EventStep
    /\ scripted.type = "flukeweed"
    /\ scripted.cur_state = "idling"
    /\ scripted'.last.ev = "on_receive_message"

InCapturing ==
    (scripted.type = "flukeweed" /\ scripted.cur_state = "capturing") =>
        /\ scripted.vars["capturing"] = Str("true")
        /\ scripted.script_timer = 10

\* The timer of a flukeweed in capturing fires.
CapturingTimerFires ==
    /\ EventStep
    /\ scripted.type = "flukeweed"
    /\ scripted.cur_state = "capturing"
    /\ scripted'.last.ev = "on_timer"

\* After the event, capturing is false and the state is idling.
NowIdling ==
    /\ scripted'.vars["capturing"] = Str("false")
    /\ scripted'.cur_state = "idling"

\* The step does not enter capturing.
NoReturnToCapturing ==
    (scripted.type = "flukeweed" /\ scripted.cur_state # "capturing") =>
        scripted'.cur_state # "capturing"

\* C18: a freshly spawned flukeweed is in capturing with capturing = true
\* and a 0.1 s timer armed; when the timer fires capturing becomes false
\* and the mob is in idling once the event completes; it never returns to
\* capturing.
C18_Capturing ==
    /\ []((scripted.type = "flukeweed" /\ scripted.last.ev = "spawn") =>
            scripted.cur_state = "capturing")
    /\ []InCapturing
    /\ [][CapturingTimerFires => NowIdling]_vars
    /\ [][NoReturnToCapturing]_vars

\* The flukeweed's timer has fired and moved it from capturing to idling.
C18_Witness ==
    /\ scripted.type = "flukeweed"
    /\ scripted.cur_state = "idling"
    /\ scripted.last.ev = "on_timer"
    /\ scripted.vars["capturing"] = Str("false")
    /\ \E i \in 1..Len(scripted.ran) :
          scripted.ran[i] = [op |-> "set_state", a |-> "idling",
                             state |-> "capturing", depth |-> 0,
                             ip |-> 2, taken |-> FALSE]


\* The interval, in hundredths of a second, for group-task power p.
PulledInterval(p) == IF p <= 3 THEN 150 ELSE IF p = 4 THEN 125 ELSE 100

\* The number of set_timer actions the event executed in the state s.
TimersSet(ran, s) ==
    Cardinality({i \in 1..Len(ran) :
                    ran[i].op = "set_timer" /\ ran[i].state = s})

\* The flukeweed enters pulled.
EntersPulled ==
    /\ scripted.type = "flukeweed"
    /\ scripted.cur_state # "pulled"
    /\ scripted'.cur_state = "pulled"

\* The timer of a flukeweed in pulled expires.
PulledTimerFires ==
    /\ EventStep
    /\ scripted.type = "flukeweed"
    /\ scripted.cur_state = "pulled"
    /\ scripted'.last.ev = "on_timer"

\* One set_timer ran in pulled and armed the interval of the power.
IntervalSelected ==
    /\ TimersSet(scripted'.ran, "pulled") = 1
    /\ scripted'.script_timer = PulledInterval(scripted.power)

\* C19: in the flukeweed's pulled state, on entering and after every timer
\* expiry, the next interval is 1.5 s for power p <= 3, 1.25 s for p = 4
\* and 1.0 s for p >= 5, set by exactly one set_timer, and each expiry
\* takes exactly 20 off the health.
C19_PulledCadence ==
    /\ [][EntersPulled => IntervalSelected]_vars
    /\ [][PulledTimerFires =>
             /\ IntervalSelected
             /\ scripted'.health = scripted.health - 20]_vars

\* A timer expiry in pulled at power 3 has taken 20 off the health and
\* armed 1.5 s.
C19_Witness ==
    /\ scripted.type = "flukeweed"
    /\ scripted.cur_state = "pulled"
    /\ scripted.last.ev = "on_timer"
    /\ scripted.power = 3
    /\ scripted.script_timer = 150
    /\ scripted.health = scripted.max_health - 20


\* The actions the raised event's own list executed.
OwnList(ran) == SelectSeq(ran, LAMBDA r : r.depth = 0)

\* The set_state actions among them.
Requests(ran) == SelectSeq(OwnList(ran), LAMBDA r : r.op = "set_state")

C20_Step ==
    /\ \A i \in 1..Len(OwnList(scripted'.ran)) :
          OwnList(scripted'.ran)[i].state = scripted.cur_state
    /\ scripted'.cur_state =
          IF Requests(scripted'.ran) = <<>> THEN scripted.cur_state
          ELSE Requests(scripted'.ran)[Len(Requests(scripted'.ran))].a

\* C20: a set_state executed inside an action list does not switch the
\* state at once: every action of the list, those after the set_state
\* included, runs with the old state as current state, the switch happens
\* after the list, and the state entered is the one the last set_state of
\* the list requested.
C20_DeferredSetState == [][EventStep => C20_Step]_vars

\* The instrumented script has requested b, written a variable, requested
\* c and armed a timer in one list, all in state a, and c was entered.
C20_Witness ==
    /\ scripted.type = "probe"
    /\ scripted.cur_state = "c"
    /\ scripted.last.ev = "on_timer"
    /\ Len(Requests(scripted.ran)) = 2
    /\ Len(OwnList(scripted.ran)) = 4
    /\ OwnList(scripted.ran)[4] =
          [op |-> "set_timer", a |-> "", state |-> "a", depth |-> 0,
           ip |-> 4, taken |-> FALSE]
    /\ scripted.vars["x"] = Str("after_b")
    /\ scripted.vars["y"] = Str("entered_c")


\* The step takes the mob from one state to another.
TransitionStep ==
    /\ ~scripted.to_delete
    /\ scripted'.type = scripted.type
    /\ scripted'.cur_state # scripted.cur_state

\* The actions run by the handlers the transition raised, in state s.
RaisedIn(ran, s) == SelectSeq(ran, LAMBDA r : r.depth > 0 /\ r.state = s)

\* What the handler of ev in state s makes the transition run first, if s
\* declares one.
HandlerRan(ran, s, ev) ==
    ev \in DOMAIN Script(scripted.type).states[s] =>
        /\ RaisedIn(ran, s) # <<>>
        /\ RaisedIn(ran, s)[1].op =
              Script(scripted.type).states[s][ev][1].op

\* No action run in the new state precedes one run in the old state.
LeaveBeforeEnter ==
    \A i, j \in 1..Len(scripted'.ran) :
       (scripted'.ran[i].state = scripted'.cur_state
        /\ scripted'.ran[j].state = scripted.cur_state) => j < i

\* The timer after the transition is armed exactly when on_enter of the
\* new state armed it.
TimerFromEnterOnly ==
    (scripted'.script_timer # 0) <=>
        (\E i \in 1..Len(scripted'.ran) :
            /\ scripted'.ran[i].op = "set_timer"
            /\ scripted'.ran[i].state = scripted'.cur_state)

C21_Step ==
    /\ HandlerRan(scripted'.ran, scripted.cur_state, "on_leave")
    /\ HandlerRan(scripted'.ran, scripted'.cur_state, "on_enter")
    /\ LeaveBeforeEnter
    /\ TimerFromEnterOnly

\* C21: every state transition runs on_leave of the old state, then swaps
\* the state, then resets script_timer, then runs on_enter of the new
\* state: a timer armed by on_leave does not survive the transition and a
\* timer armed by on_enter does.
C21_TransitionOrder == [][TransitionStep => C21_Step]_vars

\* The instrumented script has left a, whose on_leave arms a timer, for b,
\* whose on_enter arms none: no timer is armed.
C21_Witness ==
    /\ scripted.type = "probe"
    /\ scripted.cur_state = "b"
    /\ scripted.script_timer = 0
    /\ \E i \in 1..Len(scripted.ran) :
          scripted.ran[i] = [op |-> "set_timer", a |-> "", state |-> "a",
                             depth |-> 1, ip |-> 2, taken |-> FALSE]
    /\ scripted.vars["y"] = Str("entered_b")


\* How deep inside if blocks the entry at index k of the list lies.
Nesting(list, k) ==
    Cardinality({j \in 1..(k - 1) : list[j].op = "if"})
    - Cardinality({j \in 1..(k - 1) : list[j].op = "end_if"})

\* The end_if that matches the if at index i.
MatchingEndIf(list, i) ==
    CHOOSE j \in (i + 1)..Len(list) :
       /\ list[j].op = "end_if"
       /\ Nesting(list, j) = Nesting(list, i) + 1
       /\ \A k \in (i + 1)..(j - 1) :
             ~(list[k].op = "end_if"
               /\ Nesting(list, k) = Nesting(list, i) + 1)

\* The indexes of the else that matches the if at index i: one or none.
MatchingElse(list, i) ==
    {j \in (i + 1)..(MatchingEndIf(list, i) - 1) :
        list[j].op = "else" /\ Nesting(list, j) = Nesting(list, i) + 1}

\* The if to which the else at index j belongs.
IfOfElse(list, j) ==
    CHOOSE i \in 1..(j - 1) : list[i].op = "if" /\ j \in MatchingElse(list, i)

\* The index at which execution goes on after the entry at index i, an
\* if having had the outcome taken.
Resumes(list, i, taken) ==
    IF list[i].op = "if"
    THEN IF taken
         THEN i + 1
         ELSE IF MatchingElse(list, i) # {}
              THEN (CHOOSE j \in MatchingElse(list, i) : TRUE) + 1
              ELSE MatchingEndIf(list, i) + 1
    ELSE IF list[i].op = "else"
         THEN MatchingEndIf(list, IfOfElse(list, i)) + 1
    ELSE i + 1

\* The record r is the run of the list from its first entry to its end.
RunsAsFlattened(list, r) ==
    r # <<>> =>
        /\ r[1].ip = 1
        /\ \A k \in 1..(Len(r) - 1) :
              r[k + 1].ip = Resumes(list, r[k].ip, r[k].taken)
        /\ Resumes(list, r[Len(r)].ip, r[Len(r)].taken) > Len(list)

C22_Step ==
    /\ RunsAsFlattened(EventList(scripted, scripted'.last.ev),
                       OwnList(scripted'.ran))
    /\ (scripted'.cur_state # scripted.cur_state
        /\ "on_enter" \in DOMAIN
              Script(scripted.type).states[scripted'.cur_state]) =>
          RunsAsFlattened(Script(scripted.type).states[scripted'.cur_state]
                              ["on_enter"],
                          RaisedIn(scripted'.ran, scripted'.cur_state))

\* C22: a false if resumes right after the else or end_if that matches it,
\* at any nesting depth, running nothing of the skipped branch; an else
\* reached from a taken branch skips to the matching end_if; so exactly
\* one branch of every if / else / end_if runs.
C22_ConditionalSkip == [][EventStep => C22_Step]_vars

\* The flukeweed's timer handler in pulled at power 4: the outer if was
\* false, the inner if at depth 2 true, and its else skipped to end_if.
C22_Witness ==
    /\ scripted.type = "flukeweed"
    /\ scripted.cur_state = "pulled"
    /\ scripted.last.ev = "on_timer"
    /\ scripted.power = 4
    /\ Len(OwnList(scripted.ran)) = 7
    /\ \A k \in 1..7 :
          OwnList(scripted.ran)[k].ip = <<1, 2, 3, 6, 7, 8, 11>>[k]
    /\ ~OwnList(scripted.ran)[3].taken
    /\ OwnList(scripted.ran)[4].taken


\* The mob is in the death state of its type.
InDeathState(mob) ==
    /\ Script(mob.type).death_state # ""
    /\ mob.cur_state = Script(mob.type).death_state

\* Health is within [0, max_health].
HealthInRange ==
    scripted.health >= 0 /\ scripted.health <= scripted.max_health

\* A mob in its death state stays there and its on_enter is not run again.
NoSecondDeath ==
    InDeathState(scripted) =>
        /\ scripted'.cur_state = scripted.cur_state
        /\ scripted'.deaths = scripted.deaths
        /\ \/ scripted'.ran = scripted.ran
           \/ RaisedIn(scripted'.ran, scripted.cur_state) = <<>>

\* The death transition is made at health 0.
DeathAtZero ==
    scripted'.deaths # scripted.deaths =>
        (scripted.health = 0 /\ scripted'.deaths = scripted.deaths + 1)

StateIsValid == scripted.cur_state \in DOMAIN Script(scripted.type).states

\* The set_state at index i of the record is the last one its list ran.
LastRequest(ran, i) ==
    /\ ran[i].op = "set_state"
    /\ \A j \in (i + 1)..Len(ran) :
          ~(ran[j].op = "set_state" /\ ran[j].depth = ran[i].depth
            /\ ran[j].state = ran[i].state)

\* A request for a state the type does not have left the mob in the state
\* that made it.
InvalidRequestIgnored ==
    \A i \in 1..Len(scripted.ran) :
       (LastRequest(scripted.ran, i)
        /\ scripted.ran[i].a \notin DOMAIN Script(scripted.type).states) =>
           scripted.cur_state = scripted.ran[i].state

----------------------------------------------------------------------------
(* The push half of process_mob_touches.                                   *)
(*                                                                         *)
(* Push amounts and angles are fixed-point numbers: U stands for one world *)
(* unit and for one radian.  A frame lasts 1 / FPS seconds.  The mobs      *)
(* stand on a line, so that get_angle is 0 or TAU / 2.                     *)

PushMobs == 3               \* mobs of a scene
PushFrames == 2             \* frames of a scene

U == 10000                  \* fixed-point scale of the floats
FPS == 30                   \* 1 / game.delta_t
HALF_TAU == 31416           \* TAU / 2.0f
IDLE_PUSH == 1000           \* 0.1f
IDLE_JITTER == 1000         \* 0.1f
PUSH_SOFTLY_AMOUNT == 60    \* MOB::PUSH_SOFTLY_AMOUNT, units per second
PUSH_THROTTLE_TIMEOUT == 100    \* MOB::PUSH_THROTTLE_TIMEOUT, hundredths
PUSH_THROTTLE_FACTOR == 10      \* 1 / MOB::PUSH_THROTTLE_FACTOR
PIKMIN_STATE_IDLING == 1
PIKMIN_STATE_IDLING_H == 2

\* Mob types as the push logic sees them.  A hitbox is its radius, or 0
\* when it is disabled; it is centred on the mob.
PushBase ==
    [category |-> "enemy", radius |-> 5, height |-> 0, pushable |-> TRUE,
     pushes |-> TRUE, pushes_softly |-> FALSE,
     pushes_with_hitboxes |-> FALSE, rectangular |-> FALSE,
     hitboxes |-> <<>>]

PushTypes ==
    [ pikmin   |-> [PushBase EXCEPT !.category = "pikmin", !.height = 10,
                                    !.pushes = FALSE],
      boulder  |-> [PushBase EXCEPT !.radius = 10, !.height = 20,
                                    !.pushable = FALSE],
      treasure |-> [PushBase EXCEPT !.category = "treasure", !.radius = 6,
                                    !.height = 8],
      spoil    |-> [PushBase EXCEPT !.category = "resource",
                                    !.pushes_softly = TRUE],
      bulborb  |-> [PushBase EXCEPT !.radius = 8, !.height = 30,
                                    !.pushes_with_hitboxes = TRUE,
                                    !.hitboxes = <<4, 0, 12>>],
      gate     |-> [PushBase EXCEPT !.category = "bridge",
                                    !.pushable = FALSE,
                                    !.rectangular = TRUE] ]

PushMob(type, x, state, alive) ==
    [type |-> type, x |-> x, z |-> 0, state |-> state,
     time_alive |-> alive, intangible |-> FALSE, unpushable |-> FALSE,
     standing_on |-> 0, carried_moving |-> FALSE,
     push_amount |-> 0, push_angle |-> 0]

\* The mobs a scene is made of.
PushPool ==
    { PushMob("pikmin", 100, PIKMIN_STATE_IDLING, TIME_CAP),
      PushMob("pikmin", 100, PIKMIN_STATE_IDLING_H, TIME_CAP),
      PushMob("pikmin", 104, PIKMIN_STATE_IDLING, 20),
      PushMob("pikmin", 102, 3, TIME_CAP),      \* not idling
      [PushMob("pikmin", 101, PIKMIN_STATE_IDLING, TIME_CAP)
          EXCEPT !.z = 50],
      [PushMob("pikmin", 99, PIKMIN_STATE_IDLING, TIME_CAP)
          EXCEPT !.intangible = TRUE],
      PushMob("boulder", 112, 1, TIME_CAP),
      [PushMob("treasure", 103, 1, TIME_CAP)
          EXCEPT !.carried_moving = TRUE],
      PushMob("spoil", 101, 1, 20),
      PushMob("bulborb", 110, 1, TIME_CAP),
      PushMob("gate", 100, 1, TIME_CAP) }

\* What rectangles_intersect and circle_intersects_rectangle may answer.
Geometry ==
    { [hit |-> FALSE, amount |-> 0, angle |-> 0],
      [hit |-> TRUE, amount |-> 3 * U, angle |-> 0],
      [hit |-> TRUE, amount |-> 7 * U, angle |-> HALF_TAU] }

PushType(mob) == PushTypes[mob.type]

\* get_angle(from, to) for two points of the line.
GetAngle(from_x, to_x) == IF to_x < from_x THEN HALF_TAU ELSE 0

BothIdlePikmin(ma, mb) ==
    /\ PushType(ma).category = "pikmin"
    /\ PushType(mb).category = "pikmin"
    /\ ma.state \in {PIKMIN_STATE_IDLING, PIKMIN_STATE_IDLING_H}
    /\ mb.state \in {PIKMIN_STATE_IDLING, PIKMIN_STATE_IDLING_H}

OkToPush(ms, i, j) ==
    /\ ~(ms[i].intangible \/ ms[j].intangible)
    /\ PushType(ms[i]).pushable
    /\ ~ms[i].unpushable
    /\ ms[i].standing_on # j

ZOverlap(ma, mb) ==
    \/ /\ mb.z < ma.z + PushType(ma).height
       /\ mb.z + PushType(mb).height > ma.z
    \/ PushType(ma).height = 0
    \/ PushType(mb).height = 0

\* Variant: neither of two carried mobs pushes the other.
CarryDeadlockBoth(ms, i, j) ==
    ms[i].carried_moving /\ ms[j].carried_moving

\* "If they are both being carried by Pikmin, one of them shouldn't push."
CarryDeadlock(ms, i, j) ==
    ms[i].carried_moving /\ ms[j].carried_moving /\ i < j

ShouldPush(ms, i, j) ==
    /\ OkToPush(ms, i, j)
    /\ PushType(ms[j]).pushes \/ BothIdlePikmin(ms[i], ms[j])
    /\ ZOverlap(ms[i], ms[j])
    /\ ~CarryDeadlock(ms, i, j)

\* The loop over the hitboxes of m2: the deepest overlap wins.
RECURSIVE HitboxPush(_, _, _, _)
HitboxPush(ma, mb, h, acc) ==
    IF h > Len(PushType(mb).hitboxes) THEN acc
    ELSE LET r == PushType(mb).hitboxes[h]
             hd == Abs(ma.x - mb.x)
             p == Abs(hd - PushType(ma).radius - r) * U
         IN  IF r # 0 /\ hd < PushType(ma).radius + r
                /\ (acc.amount = 0 \/ p > acc.amount)
             THEN HitboxPush(ma, mb, h + 1,
                             [amount |-> p,
                              angle |-> GetAngle(mb.x, ma.x)])
             ELSE HitboxPush(ma, mb, h + 1, acc)

\* xy_collision, temp_push_amount and temp_push_angle of the four shape
\* cases; geo is the answer of the rectangle tests.
ShapePush(ma, mb, geo) ==
    LET d == Abs(ma.x - mb.x)
        reach == PushType(ma).radius + PushType(mb).radius
    IN  IF PushType(ma).rectangular /\ PushType(mb).rectangular
        THEN geo
        ELSE IF PushType(ma).rectangular
        THEN [geo EXCEPT !.angle = @ + HALF_TAU]
        ELSE IF PushType(mb).rectangular
        THEN geo
        ELSE IF d <= reach
        THEN [hit |-> TRUE, amount |-> Abs(d - reach) * U,
              angle |-> GetAngle(mb.x, ma.x)]
        ELSE [hit |-> FALSE, amount |-> 0, angle |-> 0]

Softened(mb, amount) ==
    IF PushType(mb).pushes_softly
    THEN Min(amount, (PUSH_SOFTLY_AMOUNT * U) \div FPS)
    ELSE amount

Throttled(ma, mb, amount) ==
    (amount * Min(ma.time_alive, mb.time_alive))
        \div (PUSH_THROTTLE_TIMEOUT * PUSH_THROTTLE_FACTOR)

BodyPushJitterBoth(ms, i, j, geo) ==
    LET ma == ms[i]
        mb == ms[j]
        t == ShapePush(ma, mb, geo)
        soft == Softened(mb, t.amount)
    IN  IF ~t.hit THEN [amount |-> 0, angle |-> 0]
        ELSE IF BothIdlePikmin(ma, mb)
        THEN [amount |-> IDLE_PUSH, angle |-> t.angle + IDLE_JITTER]
        ELSE IF \/ ma.time_alive < PUSH_THROTTLE_TIMEOUT
                \/ mb.time_alive < PUSH_THROTTLE_TIMEOUT
        THEN [amount |-> Throttled(ma, mb, soft), angle |-> t.angle]
        ELSE [amount |-> soft, angle |-> t.angle]

BodyPush(ms, i, j, geo) ==
    LET ma == ms[i]
        mb == ms[j]
        t == ShapePush(ma, mb, geo)
        soft == Softened(mb, t.amount)
    IN  IF ~t.hit THEN [amount |-> 0, angle |-> 0]
        ELSE IF BothIdlePikmin(ma, mb)
        THEN [amount |-> IDLE_PUSH,
              angle |-> t.angle + (IF i > j THEN IDLE_JITTER ELSE 0)]
        ELSE IF \/ ma.time_alive < PUSH_THROTTLE_TIMEOUT
                \/ mb.time_alive < PUSH_THROTTLE_TIMEOUT
        THEN [amount |-> Throttled(ma, mb, soft), angle |-> t.angle]
        ELSE [amount |-> soft, angle |-> t.angle]

\* push_amount and push_angle, the locals, when the block is entered.
LocalPush(ms, i, j, geo) ==
    IF PushType(ms[j]).pushes_with_hitboxes
    THEN HitboxPush(ms[i], ms[j], 1, [amount |-> 0, angle |-> 0])
    ELSE BodyPush(ms, i, j, geo)

AccumulateLast(mob, p) ==
    IF p.amount > 0
    THEN [mob EXCEPT !.push_amount = p.amount * FPS,
                     !.push_angle = p.angle]
    ELSE mob

\* "If the mob is inside the other, it needs to be pushed out."
Accumulate(mob, p) ==
    IF p.amount * FPS > mob.push_amount
    THEN [mob EXCEPT !.push_amount = p.amount * FPS,
                     !.push_angle = p.angle]
    ELSE mob

UsesGeometry(ma, mb) ==
    /\ ~PushType(mb).pushes_with_hitboxes
    /\ PushType(ma).rectangular \/ PushType(mb).rectangular

PushInit ==
    /\ \E ms \in [1..PushMobs -> PushPool] :
          pushing = [phase |-> "tick", mobs |-> ms, m |-> 1, m2 |-> 0,
                     frame |-> 1, seen |-> <<>>]
    /\ scripted = NoScripted
    /\ lead = NoLead
    /\ NoArea

\* Mob::tick of m: the push of the previous frame is spent, then
\* process_mob_interactions starts its loop.
PushTick ==
    /\ pushing.phase = "tick"
    /\ pushing.m <= Len(pushing.mobs)
    /\ pushing' = [pushing EXCEPT
                     !.phase = "pair", !.m2 = 1, !.seen = <<>>,
                     !.mobs[pushing.m].push_amount = 0,
                     !.mobs[pushing.m].push_angle = 0]
    /\ UNCHANGED <<gameplay_vars, scripted, lead>>

\* process_mob_interactions: a mob is not examined against itself.
PushSelf ==
    /\ pushing.phase = "pair"
    /\ pushing.m2 <= Len(pushing.mobs)
    /\ pushing.m2 = pushing.m
    /\ pushing' = [pushing EXCEPT !.m2 = @ + 1]
    /\ UNCHANGED <<gameplay_vars, scripted, lead>>

\* process_mob_touches(m, m2), the push.
PushPair ==
    /\ pushing.phase = "pair"
    /\ pushing.m2 <= Len(pushing.mobs)
    /\ pushing.m2 # pushing.m
    /\ LET ms == pushing.mobs
           i == pushing.m
           j == pushing.m2
       IN  \E geo \in Geometry :
             /\ UsesGeometry(ms[i], ms[j]) \/ geo.amount = 0
             /\ IF ShouldPush(ms, i, j)
                THEN LET p == LocalPush(ms, i, j, geo)
                     IN  pushing' = [pushing EXCEPT
                             !.m2 = @ + 1,
                             !.mobs[i] = Accumulate(@, p),
                             !.seen = Append(@, [m2 |-> j,
                                                 amount |-> p.amount,
                                                 angle |-> p.angle])]
                ELSE pushing' = [pushing EXCEPT !.m2 = @ + 1]
    /\ UNCHANGED <<gameplay_vars, scripted, lead>>

\* The end of the loop of process_mob_interactions; the next mob ticks.
PushMobEnd ==
    /\ pushing.phase = "pair"
    /\ pushing.m2 > Len(pushing.mobs)
    /\ pushing' = [pushing EXCEPT !.phase = "tick", !.m = @ + 1]
    /\ UNCHANGED <<gameplay_vars, scripted, lead>>

\* The end of the loop of do_gameplay_logic; the next frame starts.
PushFrameEnd ==
    /\ pushing.phase = "tick"
    /\ pushing.m > Len(pushing.mobs)
    /\ pushing.frame < PushFrames
    /\ pushing' = [pushing EXCEPT !.m = 1, !.frame = @ + 1]
    /\ UNCHANGED <<gameplay_vars, scripted, lead>>

PushNext ==
    PushTick \/ PushSelf \/ PushPair \/ PushMobEnd \/ PushFrameEnd

PushSpec == PushInit /\ [][PushNext]_vars


----------------------------------------------------------------------------
(* Properties of the push.                                                 *)

\* process_mob_touches is about to examine m against another mob m2.
AtPushPair ==
    /\ pushing.phase = "pair"
    /\ pushing.m2 <= Len(pushing.mobs)
    /\ pushing.m2 # pushing.m

PushedMob == pushing.mobs[pushing.m]

Pusher == pushing.mobs[pushing.m2]

\* Two tangible Pikmin, both idling, whose bodies overlap.
IdlePairOverlaps ==
    /\ AtPushPair
    /\ BothIdlePikmin(PushedMob, Pusher)
    /\ ~PushedMob.intangible /\ ~Pusher.intangible
    /\ Abs(PushedMob.x - Pusher.x)
           <= PushType(PushedMob).radius + PushType(Pusher).radius
    /\ ZOverlap(PushedMob, Pusher)

\* Two pushes act along exactly opposite lines.
Opposite(a, b) == (a - b) % (2 * HALF_TAU) = HALF_TAU

\* The push m2 is given when the pair is examined the other way round.
PushBack == BodyPush(pushing.mobs, pushing.m2, pushing.m,
                     [hit |-> FALSE, amount |-> 0, angle |-> 0])

C26_Step ==
    /\ Len(pushing'.seen) = Len(pushing.seen) + 1
    /\ LET p == pushing'.seen[Len(pushing'.seen)]
       IN  /\ p.m2 = pushing.m2
           /\ p.amount = IDLE_PUSH
           /\ p.angle = GetAngle(Pusher.x, PushedMob.x)
                          + (IF pushing.m > pushing.m2 THEN IDLE_JITTER
                             ELSE 0)
           /\ PushBack.amount = IDLE_PUSH
           /\ ~Opposite(p.angle, PushBack.angle)

\* C26: when two idling Pikmin overlap, the push computed for each is the
\* idle-idle constant 0.1 and not the depth of the overlap; the push angle
\* of the one with the higher index in the list, and only of that one, is
\* offset by 0.1 rad, so that the two pushes never act along opposite lines.
C26_IdlePush == [][IdlePairOverlaps => C26_Step]_vars

\* Two Pikmin idle on the very same spot; the second one has just been
\* given the constant push at the jittered angle, and the first one holds
\* the constant push at the plain angle.
C26_Witness ==
    /\ pushing.phase = "pair"
    /\ pushing.m = 2 /\ pushing.m2 = 2
    /\ BothIdlePikmin(pushing.mobs[1], pushing.mobs[2])
    /\ pushing.mobs[1].x = pushing.mobs[2].x
    /\ pushing.mobs[1].time_alive = TIME_CAP
    /\ pushing.mobs[2].time_alive = TIME_CAP
    /\ pushing.seen = <<[m2 |-> 1, amount |-> IDLE_PUSH,
                         angle |-> IDLE_JITTER]>>
    /\ pushing.mobs[2].push_amount = IDLE_PUSH * FPS
    /\ pushing.mobs[2].push_angle = IDLE_JITTER
    /\ pushing.mobs[1].push_amount = IDLE_PUSH * FPS
    /\ pushing.mobs[1].push_angle = 0

\* The pushes computed so far in this call that are not zero.
Pushers == {k \in 1..Len(pushing.seen) : pushing.seen[k].amount > 0}

StrongestPush ==
    CHOOSE k \in Pushers :
        \A l \in Pushers : pushing.seen[l].amount <= pushing.seen[k].amount

PushNeverDecreases ==
    [][(pushing.phase = "pair" /\ pushing'.phase = "pair")
          => pushing'.mobs[pushing.m].push_amount
                 >= pushing.mobs[pushing.m].push_amount]_vars

PushIsTheMaximum ==
    (pushing.phase = "pair" /\ pushing.m2 > Len(pushing.mobs)
        /\ Pushers # {})
    => /\ PushedMob.push_amount = pushing.seen[StrongestPush].amount * FPS
       /\ \E k \in Pushers :
             /\ pushing.seen[k].amount = pushing.seen[StrongestPush].amount
             /\ pushing.seen[k].angle = PushedMob.push_angle

\* C27: during the pair iteration of one tick for m, m.push_amount never
\* decreases, and at the end it is the maximum push (amount per delta_t)
\* over the partners that pushed m in this tick, m.push_angle being the
\* angle of a partner that attained the maximum.
C27_MaximumPush == PushNeverDecreases /\ []PushIsTheMaximum

\* At the end of the iteration of a second frame, two partners have pushed
\* m, the stronger one first, and m holds the stronger push.
C27_Witness ==
    /\ pushing.phase = "pair"
    /\ pushing.frame = 2
    /\ pushing.m2 > Len(pushing.mobs)
    /\ Len(pushing.seen) = 2
    /\ pushing.seen[1].amount > pushing.seen[2].amount
    /\ pushing.seen[2].amount > 0
    /\ pushing.seen[1].angle # pushing.seen[2].angle
    /\ PushedMob.push_amount = pushing.seen[1].amount * FPS
    /\ PushedMob.push_angle = pushing.seen[1].angle


----------------------------------------------------------------------------
(* A leader's throws: Leader::tick_class_specifics, Leader::queue_throw    *)
(* and Leader::check_throw_ok.  Time is counted in hundredths of a second. *)

MaxMembers == 2                     \* group members that can be thrown
SINCE_CAP == 20                     \* time since a throw is not counted
                                    \* beyond this
THROW_COOLDOWN_DURATION == 15       \* 0.15f

\* Lengths of a frame.
ThrowDeltas == {3, 4, THROW_COOLDOWN_DURATION + 1}

\* Answers of auto_throw_repeater.tick: triggers in this frame.
AutoThrows == 0..2

NoLast == [op |-> "none", delta |-> 0, n_auto |-> 0, grabbed |-> FALSE,
           queued |-> FALSE, cooldown |-> 0]

NewLeader ==
    [unit |-> "throw", throw_cooldown |-> 0, throw_queued |-> FALSE,
     holding |-> FALSE,         \* !holding.empty()
     throw_ev |-> TRUE,         \* fsm.get_event(LEADER_EV_THROW) != nullptr
     auto |-> FALSE,            \* the auto-throw repeater is running
     members |-> MaxMembers,    \* group->members.size()
     throws |-> 0,              \* LEADER_EV_THROW events of the last tick
     since_throw |-> -1,        \* time ticked since the last throw event
     gap |-> -1,                \* time between the last two throw events
     last |-> NoLast]

check_throw_ok(l) == l.holding /\ l.throw_ev

queue_throw_always(l) == [l EXCEPT !.throw_queued = TRUE]

queue_throw(l) ==
    IF ~check_throw_ok(l) THEN l ELSE [l EXCEPT !.throw_queued = TRUE]

\* if(throw_cooldown > 0.0f) throw_cooldown -= delta_t
CoolDown(l, delta) ==
    IF l.throw_cooldown > 0 THEN [l EXCEPT !.throw_cooldown = @ - delta]
    ELSE l

\* The auto-throw: one grab and one queued throw, however many triggers.
AutoThrow(l, n_auto, grabbed) ==
    IF n_auto > 0 /\ grabbed
    THEN queue_throw([l EXCEPT !.holding = TRUE])
    ELSE l

\* The LEADER_EV_THROW handler lets go of the held mob, which leaves the
\* group.
Thrown(l, delta) ==
    [l EXCEPT !.holding = FALSE,
              !.members = IF @ > 0 THEN @ - 1 ELSE 0,
              !.throws = @ + 1,
              !.gap = IF l.since_throw < 0 THEN -1
                      ELSE Min(l.since_throw + delta, SINCE_CAP),
              !.since_throw = 0]

ThrowQueuedNoCooldown(l, delta) ==
    IF l.throw_queued /\ l.throw_cooldown <= 0 /\ check_throw_ok(l)
    THEN [Thrown(l, delta) EXCEPT !.throw_queued = FALSE]
    ELSE l

ThrowQueued(l, delta) ==
    IF l.throw_queued /\ l.throw_cooldown <= 0 /\ check_throw_ok(l)
    THEN [Thrown(l, delta) EXCEPT
            !.throw_cooldown = THROW_COOLDOWN_DURATION,
            !.throw_queued = FALSE]
    ELSE l

DropQueue(l) ==
    IF l.throw_cooldown <= 0 THEN [l EXCEPT !.throw_queued = FALSE] ELSE l

StopIfAlone(l) ==
    IF l.members = 0 THEN [l EXCEPT !.auto = FALSE] ELSE l

tick_class_specifics(l, delta, n_auto, grabbed) ==
    LET done == StopIfAlone(DropQueue(ThrowQueued(
                    AutoThrow(CoolDown([l EXCEPT !.throws = 0], delta),
                              n_auto, grabbed),
                    delta)))
    IN  [done EXCEPT
           !.since_throw = IF done.throws > 0 THEN 0
                           ELSE IF @ < 0 THEN -1
                           ELSE Min(@ + delta, SINCE_CAP),
           !.last = [op |-> "tick", delta |-> delta, n_auto |-> n_auto,
                     grabbed |-> grabbed, queued |-> l.throw_queued,
                     cooldown |-> l.throw_cooldown]]

ThrowInit ==
    /\ lead = NewLeader
    /\ scripted = NoScripted
    /\ pushing = NoPushing
    /\ NoArea

\* One frame of the leader.
LeadTick ==
    /\ \E delta \in ThrowDeltas, n_auto \in AutoThrows, grabbed \in BOOLEAN :
          /\ n_auto > 0 => lead.auto
          /\ grabbed => (n_auto > 0 /\ lead.members > 0 /\ ~lead.holding)
          /\ lead' = tick_class_specifics(lead, delta, n_auto, grabbed)
    /\ UNCHANGED <<gameplay_vars, scripted, pushing>>

\* The player asks for a throw.
QueueThrow ==
    /\ lead' = [queue_throw(lead) EXCEPT !.last = [NoLast EXCEPT
                                                    !.op = "queue"]]
    /\ UNCHANGED <<gameplay_vars, scripted, pushing>>

\* The leader grabs a group member, or lets go of it.
HoldOrRelease ==
    /\ lead.holding \/ lead.members > 0
    /\ lead' = [lead EXCEPT !.holding = ~@,
                            !.last = [NoLast EXCEPT !.op = "hold"]]
    /\ UNCHANGED <<gameplay_vars, scripted, pushing>>

\* The leader's script moves to a state that handles the throw event, or
\* to one that does not.
LeaderStateChanges ==
    /\ lead' = [lead EXCEPT !.throw_ev = ~@,
                            !.last = [NoLast EXCEPT !.op = "state"]]
    /\ UNCHANGED <<gameplay_vars, scripted, pushing>>

\* start_auto_throwing and stop_auto_throwing.
AutoThrowSwitch ==
    /\ lead.auto \/ lead.members > 0
    /\ lead' = [lead EXCEPT !.auto = ~@,
                            !.last = [NoLast EXCEPT !.op = "auto"]]
    /\ UNCHANGED <<gameplay_vars, scripted, pushing>>

\* A mob joins the group.
JoinGroup ==
    /\ lead.members < MaxMembers
    /\ lead' = [lead EXCEPT !.members = @ + 1,
                            !.last = [NoLast EXCEPT !.op = "join"]]
    /\ UNCHANGED <<gameplay_vars, scripted, pushing>>

ThrowNext ==
    \/ LeadTick
    \/ QueueThrow
    \/ HoldOrRelease
    \/ LeaderStateChanges
    \/ AutoThrowSwitch
    \/ JoinGroup

ThrowSpec == ThrowInit /\ [][ThrowNext]_vars


----------------------------------------------------------------------------
(* Properties of the throws.                                               *)

ThrowGap == lead.gap = -1 \/ lead.gap >= THROW_COOLDOWN_DURATION

OneThrowPerTick == lead.throws <= 1

\* C29: between two consecutive LEADER_EV_THROW events fired by
\* tick_class_specifics at least THROW_COOLDOWN_DURATION of ticked time
\* elapses, and a tick fires at most one throw event, even when the
\* auto-throw repeater triggers several times in it.
C29_ThrowCooldown == ThrowGap /\ OneThrowPerTick

\* A second throw has been fired, by an auto-throw tick in which the
\* repeater triggered twice, as soon as the cooldown allowed it.
C29_Witness ==
    /\ lead.last.op = "tick"
    /\ lead.last.n_auto = 2
    /\ lead.throws = 1
    /\ lead.gap = THROW_COOLDOWN_DURATION
    /\ ~lead.last.queued

TickStep == lead'.last.op = "tick" /\ lead' # lead

\* The leader can throw when the tick tests it: it holds a mob, possibly
\* one grabbed by the auto-throw of this very tick, and its state handles
\* the throw event.
CanThrowAtTick ==
    /\ lead.throw_ev
    /\ lead.holding \/ (lead'.last.n_auto > 0 /\ lead'.last.grabbed)

QueuedThrowGoesThrough ==
    (TickStep /\ lead.throw_queued /\ lead.throw_cooldown > 0)
    => IF lead.throw_cooldown - lead'.last.delta > 0
       THEN lead'.throw_queued /\ lead'.throws = 0
       ELSE CanThrowAtTick => lead'.throws = 1

RefusedQueueChangesNothing ==
    (lead'.last.op = "queue" /\ ~check_throw_ok(lead))
    => lead'.throw_queued = lead.throw_queued

\* C30: a throw queued while the cooldown is running stays queued until
\* the first tick at which the cooldown has ended and is fired in that
\* tick if the leader can throw then; queue_throw on a leader that cannot
\* throw leaves throw_queued as it was.
C30_QueuedThrow ==
    [][QueuedThrowGoesThrough /\ RefusedQueueChangesNothing]_vars

\* A throw queued during the cooldown has been fired by a tick without
\* auto-throw, exactly when the cooldown had run out.
C30_Witness ==
    /\ lead.last.op = "tick"
    /\ lead.last.queued /\ lead.last.cooldown > 0
    /\ lead.last.cooldown - lead.last.delta <= 0
    /\ lead.last.n_auto = 0
    /\ lead.throws = 1
    /\ lead.gap = THROW_COOLDOWN_DURATION


----------------------------------------------------------------------------
(* Leader::order_pikmin_to_onion.                                          *)

GroupSize == 3              \* members of the leader's group
MaxAmount == 4              \* largest amount asked for

\* A group member: its category and type, its maturity, its distance to
\* the nest, and whether its state handles MOB_EV_GO_TO_ONION.
Member(category, type, maturity, dist, go) ==
    [category |-> category, type |-> type, maturity |-> maturity,
     dist |-> dist, go |-> go]

MemberPool ==
    { Member("pikmin", "red", 0, 50, TRUE),
      Member("pikmin", "red", 0, 30, TRUE),
      Member("pikmin", "red", 1, 10, TRUE),
      Member("pikmin", "red", 2, 20, FALSE),
      Member("pikmin", "yellow", 0, 10, TRUE),
      Member("leader", "olimar", 0, 5, TRUE) }

PikminTypes == {"red", "yellow"}

NoOrder == [op |-> "none"]

\* The indices of the group's Pikmin of the type, in group order.
Candidates(group, type) ==
    SelectSeq([i \in 1..Len(group) |-> i],
              LAMBDA i : /\ group[i].category = "pikmin"
                         /\ group[i].type = type)

\* The comparison handed to std::sort.
MaturityThenDistance(p1, p2) ==
    IF p1.maturity # p2.maturity THEN p1.maturity < p2.maturity
    ELSE p1.dist < p2.dist

\* What std::sort may leave: any arrangement of the candidates in which no
\* element is followed by one that compares less.
Sorted(group, cands) ==
    { s \in [1..Len(cands) -> {cands[k] : k \in 1..Len(cands)}] :
        /\ \A a, b \in 1..Len(cands) : a # b => s[a] # s[b]
        /\ \A a, b \in 1..Len(cands) :
              a < b => ~MaturityThenDistance(group[s[b]], group[s[a]]) }

\* The loop that orders the Pikmin, from position p on.
RECURSIVE OrderInOrder(_, _, _, _, _)
OrderInOrder(group, sorted, p, amount, ordered) ==
    IF p > Len(sorted) THEN [ordered |-> ordered, ret |-> FALSE]
    ELSE IF ~group[sorted[p]].go
    THEN OrderInOrder(group, sorted, p + 1, amount, ordered)
    ELSE IF Len(ordered) + 1 = amount
    THEN [ordered |-> Append(ordered, sorted[p]), ret |-> TRUE]
    ELSE OrderInOrder(group, sorted, p + 1, amount,
                      Append(ordered, sorted[p]))

order_pikmin_to_onion(group, type, amount) ==
    { OrderInOrder(group, s, 1, amount, <<>>) :
        s \in Sorted(group, Candidates(group, type)) }

OnionInit ==
    /\ \E n \in 0..GroupSize : \E g \in [1..n -> MemberPool] :
          lead = [unit |-> "order", group |-> g, result |-> NoOrder]
    /\ scripted = NoScripted
    /\ pushing = NoPushing
    /\ NoArea

\* The leader is told to send amount Pikmin of a type into the nest.
OrderPikminToOnion ==
    /\ \E type \in PikminTypes, amount \in 0..MaxAmount :
       \E r \in order_pikmin_to_onion(lead.group, type, amount) :
          lead' = [lead EXCEPT !.result =
                      [op |-> "order", type |-> type, amount |-> amount,
                       ordered |-> r.ordered, ret |-> r.ret]]
    /\ UNCHANGED <<gameplay_vars, scripted, pushing>>

OnionNext == OrderPikminToOnion

OnionSpec == OnionInit /\ [][OnionNext]_vars

----------------------------------------------------------------------------
(* Properties of order_pikmin_to_onion.                                    *)

\* The members that can be ordered: Pikmin of the type asked for whose
\* state handles the order.
Orderable ==
    {i \in 1..Len(lead.group) :
        /\ lead.group[i].category = "pikmin"
        /\ lead.group[i].type = lead.result.type
        /\ lead.group[i].go}

OrderedSet == {lead.result.ordered[k] : k \in 1..Len(lead.result.ordered)}

\* Those ordered are orderable, none twice, in ascending order of
\* (maturity, distance), and none left behind comes before one of them.
OrderedByPriority ==
    LET o == lead.result.ordered
        g == lead.group
    IN  /\ OrderedSet \subseteq Orderable
        /\ Cardinality(OrderedSet) = Len(o)
        /\ \A a, b \in 1..Len(o) :
              a < b => ~MaturityThenDistance(g[o[b]], g[o[a]])
        /\ \A i \in Orderable \ OrderedSet : \A k \in 1..Len(o) :
              ~MaturityThenDistance(g[i], g[o[k]])

OrderContract ==
    /\ OrderedByPriority
    /\ Len(lead.result.ordered) <= lead.result.amount
    /\ lead.result.ret <=> Len(lead.result.ordered) = lead.result.amount
    /\ Cardinality(Orderable) < lead.result.amount => ~lead.result.ret

\* C28: order_pikmin_to_onion orders Pikmin of the type asked for, lower
\* maturity first and closer to the nest first among equal maturity; it
\* orders no more than amount Pikmin, returns true exactly when amount
\* Pikmin were ordered, and false when the group holds fewer orderable
\* Pikmin of the type than amount.
C28_OrderContract == lead.result.op = "order" => OrderContract

\* The same for the amounts from 1 on.
OrderContractFromOne ==
    (lead.result.op = "order" /\ lead.result.amount >= 1) => OrderContract

\* Two of three orderable Pikmin were asked for and ordered, the less
\* mature first, and a Pikmin that cannot be ordered was passed over.
OrderWitness ==
    /\ lead.result.op = "order"
    /\ lead.result.amount = 2 /\ lead.result.ret
    /\ Len(lead.result.ordered) = 2
    /\ Cardinality(Orderable) = 2
    /\ \E i \in 1..Len(lead.group) :
          lead.group[i].type = lead.result.type /\ ~lead.group[i].go


----------------------------------------------------------------------------
(* Properties of the handlers run by process_mob_touches.                  *)

\* C31: every handler that process_mob_touches runs on m (touch-object,
\* touch-opponent and each hitbox event) is the handler that m's current
\* state declares for the event at the moment it is run: once a handler has
\* changed m's state, no handler fetched from the previous state is run
\* later in the same pair examination.
C31_HandlerOfCurrentState ==
    \A i \in LogIdx :
        (IsContact(log[i]) /\ log[i].ran) => log[i].hstate = log[i].cstate


----------------------------------------------------------------------------
(* Switching the current leader: change_to_next_leader on a list of        *)
(* leaders, called by the player's input and by the current-leader logic.  *)

MaxLeaders == 3

NoCall == [by |-> "none"]

\* A leader of the list, in the given state of its script.
LeaderMob(id, state) ==
    [NewMob(id, "leader", 100 + id, TIME_CAP) EXCEPT !.state = state]

\* 0-based position of a leader in the list of available leaders.
AvailIdx(avail, ptr) ==
    IF \E k \in 1..Len(avail) : avail[k] = ptr
    THEN (CHOOSE k \in 1..Len(avail) : avail[k] = ptr) - 1
    ELSE INVALID_IDX

\* The games the switch starts from: up to MaxLeaders leaders, each in
\* any state of its script, and any of them (or none) in control.
SwitchInit ==
    /\ \E n \in 1..MaxLeaders :
       \E st \in [1..n -> 1..3], cur \in 0..n :
          LET ms == [i \in 1..n |-> LeaderMob(i, st[i])]
              avail == UpdateAvailableLeaders(ms)
          IN  lead = [unit |-> "switch", phase |-> "ready", mobs |-> ms,
                      ptr |-> cur, idx |-> AvailIdx(avail, cur),
                      avail |-> avail, tried |-> {}, call |-> NoCall]
    /\ scripted = NoScripted
    /\ pushing = NoPushing
    /\ NoArea

\* The state a call of change_to_next_leader leaves; a call whose search
\* loop never ends leaves the game hung inside it.
Switched(by, avail, forward, force_success, keep_idx) ==
    LET L == ChangeToNextLeader(lead.mobs, lead.ptr, lead.idx, avail,
                                forward, force_success, keep_idx)
    IN  [lead EXCEPT
           !.phase = IF L.hang THEN "hung" ELSE "returned",
           !.mobs = L.mobs, !.ptr = L.ptr, !.idx = L.idx,
           !.avail = avail, !.tried = L.tried,
           !.call = [by |-> by, forward |-> forward,
                     force_success |-> force_success,
                     keep_idx |-> keep_idx, ptr |-> lead.ptr,
                     idx |-> lead.idx, mobs |-> lead.mobs,
                     avail |-> avail]]

\* A leader is marked for deletion.
LeaderDies ==
    /\ lead.unit = "switch" /\ lead.phase = "ready"
    /\ \E i \in 1..Len(lead.mobs) :
          /\ ~lead.mobs[i].to_delete
          /\ lead' = [lead EXCEPT !.mobs[i].to_delete = TRUE,
                                  !.mobs[i].health = 0]
    /\ UNCHANGED <<gameplay_vars, scripted, pushing>>

\* A call with any arguments, on the list as it was last computed.
SwitchLeader ==
    /\ lead.unit = "switch" /\ lead.phase = "ready"
    /\ \E forward \in BOOLEAN, force_success \in BOOLEAN,
          keep_idx \in BOOLEAN :
          lead' = Switched("input", lead.avail, forward, force_success,
                           keep_idx)
    /\ UNCHANGED <<gameplay_vars, scripted, pushing>>

\* do_gameplay_leader_logic when the current leader is being deleted.
SwitchFromDeleted ==
    /\ lead.unit = "switch" /\ lead.phase = "ready"
    /\ lead.ptr # NoMob
    /\ lead.mobs[IdxOf(lead.mobs, lead.ptr)].to_delete
    /\ lead' = Switched("logic", UpdateAvailableLeaders(lead.mobs),
                        TRUE, TRUE, TRUE)
    /\ UNCHANGED <<gameplay_vars, scripted, pushing>>

SwitchNext == LeaderDies \/ SwitchLeader \/ SwitchFromDeleted

SwitchSpec == SwitchInit /\ [][SwitchNext]_vars

----------------------------------------------------------------------------
(* Properties of change_to_next_leader.                                    *)

\* C32: change_to_next_leader terminates for every combination of
\* arguments and every game with a non-empty list of available leaders,
\* also when there is no current leader or the current leader is no
\* longer in the list and no candidate takes control: no call is left
\* inside its search loop.
C32_SwitchTerminates ==
    (lead.unit = "switch" /\ lead.call # NoCall /\ lead.call.avail # <<>>)
        => lead.phase # "hung"


\* The leaders of the list a call was made on whose activation handler
\* would take control.
Accepting(c) ==
    {p \in {c.avail[k] : k \in 1..Len(c.avail)} :
        LET i == IdxOf(c.mobs, p)
        IN  i # 0 /\ p # c.ptr /\ EventRuns(c.mobs[i])
            /\ GetEvent(c.mobs[i], "activated")}

\* The available leader after the original one in the cycling direction.
\* A current leader that has just left the list is followed by the
\* leader that took its index.
Follower(c) ==
    LET n == Len(c.avail)
        o == AvailIdx(c.avail, c.ptr)
        dir == IF c.forward THEN 1 ELSE -1
    IN  IF o # INVALID_IDX THEN c.avail[((o + dir) % n) + 1]
        ELSE c.avail[(((IF c.keep_idx THEN c.idx - dir ELSE c.idx) + dir)
                      % n) + 1]

ForcedCall ==
    /\ lead.unit = "switch" /\ lead.call # NoCall
    /\ lead.call.force_success
    /\ Len(lead.call.avail) >= 2
    /\ Accepting(lead.call) = {}

RefusedCall ==
    /\ lead.unit = "switch" /\ lead.call # NoCall
    /\ ~lead.call.force_success
    /\ lead.call.avail # <<>>
    /\ lead.call.ptr # NoMob
    /\ ~GetEvent(lead.call.mobs[IdxOf(lead.call.mobs, lead.call.ptr)],
                 "inactivated")

SwitchedToFollower ==
    /\ lead.ptr = Follower(lead.call)
    /\ lead.idx = AvailIdx(lead.avail, lead.ptr)
    /\ lead.mobs[IdxOf(lead.mobs, lead.ptr)].state = LEADER_STATE_ACTIVE

\* C35: a call with force_success, at least two available leaders and no
\* candidate taking control returns with the current leader set to the
\* available leader that follows the original one in the cycling
\* direction, the index pointing at it and that leader in the active
\* state; a call without force_success on a current leader whose state
\* has no inactivation handler changes nothing and sends no activation
\* event.
C35_ForcedSwitch ==
    /\ ForcedCall => (lead.phase = "returned" /\ SwitchedToFollower)
    /\ RefusedCall =>
          /\ lead.phase = "returned"
          /\ lead.ptr = lead.call.ptr /\ lead.idx = lead.call.idx
          /\ lead.mobs = lead.call.mobs
          /\ lead.tried = {}


----------------------------------------------------------------------------
(* Properties of the gameplay tick: state changes and hazards.             *)

\* The handler logged at position i changed the acting mob's state.
ChangedState(i) ==
    /\ log[i].ran
    /\ log[i].cstate # (IF i < Len(log) THEN log[i + 1].cstate
                        ELSE mobs[m].state)

\* C33: if a touch or hitbox handler run while m's pairs are examined
\* changes m's state, no pending event is dispatched for m in that tick,
\* whatever state the queued handlers were fetched from.
C33_NoPendingAfterChange ==
    \A i, j \in LogIdx :
        (i < j /\ IsContact(log[i]) /\ ChangedState(i))
            => ~IsPending(log[j])


\* A Normal hitbox of m overlaps an Attack hitbox of m2 that carries a
\* hazard, and nothing rejects the attack.
HazardTouch ==
    LET ma == mobs[m]
        mb == mobs[m2]
    IN  /\ ~MobTypes[ma.type].resistant
        /\ CanHurt(mb, ma)
        /\ ~mb.disables_attack
        /\ \E a \in 1..Len(Hitboxes(ma)), b \in 1..Len(Hitboxes(mb)) :
              /\ Hitboxes(ma)[a].type = "normal"
              /\ Hitboxes(mb)[b].type = "attack"
              /\ Hitboxes(mb)[b].hazards > 0
              /\ HitboxCollided(ma, Hitboxes(ma)[a], mb, Hitboxes(mb)[b])

\* The touches of the pair (m, m2) have just been processed.
TouchesDone ==
    /\ pc = "reach"
    /\ Dist(mobs[m].pos, mobs[m2].pos)
          <= PhysicalSpan(mobs[m]) + PhysicalSpan(mobs[m2])

\* C34: when m's state declares a touched-hazard handler and a Normal
\* hitbox of m overlaps a hazard-carrying Attack hitbox of m2 (m not
\* resistant, m2 allowed to hurt m, no status that disables attacks), the
\* hazard handler has been run on m about m2 once the pair's touches are
\* processed, whichever other hitbox handlers the state declares.
C34_HazardHandlerRuns ==
    (TouchesDone /\ GetEvent(mobs[m], "hazard") /\ HazardTouch)
        => \E i \in LogIdx :
              log[i].ev = "hazard" /\ log[i].other = mobs[m2].id


----------------------------------------------------------------------------
(* Leader::dismiss: the leader's group is split into subgroups by type,    *)
(* every member is told to leave, leaders of the group last.               *)

MaxGroup == 3

\* The registered subgroup types, in the order get_first_type and
\* get_next_type go through them; "leader" is the type of the leader
\* category.  A mob with no subgroup type has "none".
SubgroupTypes == <<"red", "tool", "leader">>

SubgroupOf == {SubgroupTypes[k] : k \in 1..Len(SubgroupTypes)}

GroupMember(id, subgroup) == [id |-> id, subgroup |-> subgroup]

\* Mob::leave_group: the mob is taken out of its leader's list of members.
leave_group(members, id) == SelectSeq(members, LAMBDA x : x.id # id)

\* The members of the subgroups, type by type, leaders left out: the
\* vector subgroups_info, flattened.
RECURSIVE SubgroupsInfo(_, _)
SubgroupsInfo(members, t) ==
    IF t > Len(SubgroupTypes) THEN <<>>
    ELSE (IF SubgroupTypes[t] # "leader"
          THEN SelectSeq(members,
                         LAMBDA x : x.subgroup = SubgroupTypes[t])
          ELSE <<>>)
         \o SubgroupsInfo(members, t + 1)

DismissInit ==
    /\ \E n \in 0..MaxGroup :
       \E sg \in [1..n -> SubgroupOf \cup {"none"}] :
          LET g == [i \in 1..n |-> GroupMember(i, sg[i])]
          IN  lead = [unit |-> "dismiss", phase |-> "ready", members |-> g,
                      called_with |-> g, subgroups_info |-> <<>>,
                      sent |-> <<>>]
    /\ scripted = NoScripted
    /\ pushing = NoPushing
    /\ NoArea

\* The call, up to the loops that dismiss.
DismissStart ==
    /\ lead.unit = "dismiss" /\ lead.phase = "ready"
    /\ lead' = IF lead.members = <<>>
               THEN [lead EXCEPT !.phase = "done"]
               ELSE [lead EXCEPT !.phase = "subgroups",
                                 !.subgroups_info =
                                     SubgroupsInfo(lead.members, 1)]
    /\ UNCHANGED <<gameplay_vars, scripted, pushing>>

\* Variant: the member leaves the group without being told.
DismissedSilently(l, id) ==
    [l EXCEPT !.members = leave_group(@, id)]

\* A member leaves the group and is sent MOB_EV_DISMISSED.
Dismissed(l, id) ==
    [l EXCEPT !.members = leave_group(@, id), !.sent = Append(@, id)]

\* One iteration of the loops over the subgroups.
DismissSubgroupMember ==
    /\ lead.unit = "dismiss" /\ lead.phase = "subgroups"
    /\ lead.subgroups_info # <<>>
    /\ lead' = [Dismissed(lead, Head(lead.subgroups_info).id)
                   EXCEPT !.subgroups_info = Tail(@)]
    /\ UNCHANGED <<gameplay_vars, scripted, pushing>>

\* One iteration of the loop that dismisses the leaders: the first member
\* left in the group.
DismissLeader ==
    /\ lead.unit = "dismiss" /\ lead.phase = "subgroups"
    /\ lead.subgroups_info = <<>>
    /\ lead.members # <<>>
    /\ lead' = Dismissed(lead, lead.members[1].id)
    /\ UNCHANGED <<gameplay_vars, scripted, pushing>>

\* No member is left: dismiss returns.
DismissEnd ==
    /\ lead.unit = "dismiss" /\ lead.phase = "subgroups"
    /\ lead.subgroups_info = <<>>
    /\ lead.members = <<>>
    /\ lead' = [lead EXCEPT !.phase = "done"]
    /\ UNCHANGED <<gameplay_vars, scripted, pushing>>

DismissNext ==
    DismissStart \/ DismissSubgroupMember \/ DismissLeader \/ DismissEnd

DismissSpec == DismissInit /\ [][DismissNext]_vars

----------------------------------------------------------------------------
(* Properties of Leader::dismiss.                                          *)

\* How many times the mob was sent MOB_EV_DISMISSED.
TimesDismissed(id) ==
    Cardinality({k \in 1..Len(lead.sent) : lead.sent[k] = id})

\* C36: when dismiss returns from a call on a non-empty group, every mob
\* that was in the group at the call has been sent MOB_EV_DISMISSED
\* exactly once, and the group is empty.
C36_DismissAll ==
    (lead.unit = "dismiss" /\ lead.phase = "done"
     /\ lead.called_with # <<>>)
        => /\ \A k \in 1..Len(lead.called_with) :
                 TimesDismissed(lead.called_with[k].id) = 1
           /\ Len(lead.sent) = Len(lead.called_with)
           /\ lead.members = <<>>

\* dismiss has returned from a group of a leader followed by members of
\* two subgroups; the leader was dismissed last.
C36_Witness ==
    /\ lead.unit = "dismiss" /\ lead.phase = "done"
    /\ Len(lead.called_with) = 3
    /\ lead.called_with[1].subgroup = "leader"
    /\ lead.called_with[2].subgroup = "tool"
    /\ lead.called_with[3].subgroup = "red"
    /\ lead.sent = <<3, 2, 1>>


----------------------------------------------------------------------------
(* Swarming: the part of do_gameplay_leader_logic that tells the current   *)
(* leader's group when the swarm starts and ends.                          *)

MaxSwarmTicks == 6

\* Magnitudes the swarm controls can report: none, half, full.
Magnitudes == 0..2

NoSignal == "none"

SwarmInit ==
    /\ lead = [unit |-> "swarm", swarm_magnitude |-> 0, ticks |-> 0,
               old |-> 0, signal |-> NoSignal, signals |-> <<>>]
    /\ scripted = NoScripted
    /\ pushing = NoPushing
    /\ NoArea

\* The signal sent for a change of the magnitude.
SwarmSignal(old_swarm_magnitude, swarm_magnitude) ==
    IF old_swarm_magnitude # swarm_magnitude
    THEN IF swarm_magnitude # 0 THEN "start" ELSE "end"
    ELSE NoSignal

\* One frame: the magnitude comes from the swarm controls, or from the
\* cursor's distance when swarming to the cursor.
SwarmTick ==
    /\ lead.unit = "swarm"
    /\ lead.ticks < MaxSwarmTicks
    /\ \E stick \in Magnitudes, swarm_cursor \in BOOLEAN,
          leader_to_cursor_dist \in Magnitudes :
          LET new == IF swarm_cursor THEN leader_to_cursor_dist ELSE stick
              s == SwarmSignal(lead.swarm_magnitude, new)
          IN  lead' = [lead EXCEPT
                         !.old = lead.swarm_magnitude,
                         !.swarm_magnitude = new,
                         !.ticks = @ + 1,
                         !.signal = s,
                         !.signals = IF s = NoSignal THEN @
                                     ELSE Append(@, s)]
    /\ UNCHANGED <<gameplay_vars, scripted, pushing>>

SwarmNext == SwarmTick

SwarmSpec == SwarmInit /\ [][SwarmNext]_vars

----------------------------------------------------------------------------
(* Properties of the swarm signals.                                        *)

\* C37: the swarm-started signal is sent only on a tick in which the
\* magnitude goes from zero to non-zero and the swarm-ended signal only
\* when it goes from non-zero to zero, so the signals sent over the ticks
\* alternate strictly.
C37_SwarmSignalsAlternate ==
    lead.unit = "swarm" =>
        /\ lead.signal = "start" =>
              (lead.old = 0 /\ lead.swarm_magnitude # 0)
        /\ lead.signal = "end" =>
              (lead.old # 0 /\ lead.swarm_magnitude = 0)
        /\ \A k \in 1..(Len(lead.signals) - 1) :
              lead.signals[k] # lead.signals[k + 1]


----------------------------------------------------------------------------
(* Properties of the pushes between carried mobs.                          *)

\* Mobs i and j are both being carried and moving, their bodies overlap
\* and nothing else keeps j from pushing i.
CarriedPair(ms, i, j) ==
    /\ ms[i].carried_moving /\ ms[j].carried_moving
    /\ Abs(ms[i].x - ms[j].x) < PushType(ms[i]).radius + PushType(ms[j]).radius
    /\ ZOverlap(ms[i], ms[j])
    /\ OkToPush(ms, i, j)
    /\ PushType(ms[j]).pushes

\* The pushes m has been given by mob j so far in this frame.
PushesFrom(j) ==
    {k \in 1..Len(pushing.seen) : pushing.seen[k].m2 = j}

\* C38: of two overlapping mobs that are both carried and moving, the one
\* with the lower index gets no push from the other, and the one with the
\* higher index is pushed by the lower one.
C38_OneCarriedMobPushes ==
    pushing.phase = "pair" =>
        \A j \in 1..(pushing.m2 - 1) :
            (j # pushing.m /\ CarriedPair(pushing.mobs, pushing.m, j))
                => IF pushing.m < j
                   THEN PushesFrom(j) = {}
                   ELSE \E k \in PushesFrom(j) : pushing.seen[k].amount > 0

\* Three carried treasures on top of each other; the second one has been
\* examined against both others and was pushed by the first one only.
C38_Witness ==
    /\ pushing.phase = "pair"
    /\ pushing.m = 2
    /\ pushing.m2 > Len(pushing.mobs)
    /\ CarriedPair(pushing.mobs, 2, 1)
    /\ CarriedPair(pushing.mobs, 2, 3)
    /\ Len(pushing.seen) = 1
    /\ pushing.seen[1].m2 = 1 /\ pushing.seen[1].amount > 0


----------------------------------------------------------------------------
(* Further properties of the scripts of script.txt.                        *)

\* The flukeweed's state is capturing exactly when its variable is true.
CapturingIffVar ==
    scripted.type = "flukeweed" =>
        (scripted.cur_state = "capturing"
            <=> scripted.vars["capturing"] = Str("true"))

\* The event of this step has stored a mob inside the flukeweed.
StoresInside ==
    /\ EventStep
    /\ scripted.type = "flukeweed"
    /\ \E i \in 1..Len(scripted'.ran) :
          scripted'.ran[i].op = "store_focus_inside"

\* The event was a touch in capturing, with the first timer still armed.
TouchBeforeTimer ==
    /\ scripted'.last.ev = "on_touch_object"
    /\ scripted.cur_state = "capturing"
    /\ scripted.vars["capturing"] = Str("true")
    /\ scripted.script_timer = 10

\* C39: between events the flukeweed is in capturing if and only if its
\* variable capturing is true; so on_touch_object stores the triggering
\* mob inside only before the first timer expiry, and never after it.
C39_CapturingWindow ==
    /\ []CapturingIffVar
    /\ [][StoresInside => TouchBeforeTimer]_vars
    /\ [][(scripted.type = "flukeweed" /\ scripted.cur_state # "capturing")
             => ~StoresInside]_vars

\* A mob touched the flukeweed before the timer fired and was stored.
C39_Witness ==
    /\ scripted.type = "flukeweed"
    /\ scripted.cur_state = "capturing"
    /\ scripted.last.ev = "on_touch_object"
    /\ scripted.script_timer = 10
    /\ \E i \in 1..Len(scripted.ran) :
          scripted.ran[i].op = "store_focus_inside"


\* The mob runs one of the two scripts of script.txt and is in dying.
IsDying ==
    /\ scripted.type \in {"flukeweed", "enemy"}
    /\ scripted.cur_state = "dying"

\* C40: in both scripts dying is absorbing: no event (timer, message,
\* touch, animation end, Pikmin landing) changes the state of a mob that
\* is in dying, and the mob leaves it only by being deleted by the handler
\* of the animation's end.
C40_DyingAbsorbs ==
    /\ [][IsDying => scripted'.cur_state = "dying"]_vars
    /\ [][(IsDying /\ scripted'.to_delete # scripted.to_delete)
             => scripted'.last.ev = "on_animation_end"]_vars
    /\ [][(IsDying /\ EventStep /\ scripted'.ran # <<>>)
             => scripted'.last.ev
                    \in {"on_animation_end", "on_receive_message"}]_vars

\* A flukeweed in dying has received the message that takes an idling one
\* to pulled; only the global handler ran.
C40_Witness ==
    /\ scripted.type = "flukeweed"
    /\ scripted.cur_state = "dying"
    /\ scripted.last.ev = "on_receive_message"
    /\ scripted.last.msg = "goal_reached"
    /\ Len(scripted.ran) = 1
    /\ ~scripted.to_delete

============================================================================
